---- MODULE Spec2Model ----
(***************************************************************************)
(* Model of api/solana-scan.js (first handler of the file, lines 1-993):   *)
(* the insider-wallet scan endpoint.  One request is modelled: the handler,*)
(* the three direct scan modes, auto-discovery, the per-wallet analysis    *)
(* and the timers the code races its awaits against.                       *)
(*                                                                         *)
(* Time is counted in units of 100 ms; every timer holds the time left     *)
(* until it is due.  Balances are counted in units of   *)
(* 1000 lamports (1 SOL = 1000000 units), because 2.5 SOL in lamports does *)
(* not fit the model checker's integers.                                   *)
(***************************************************************************)
EXTENDS Integers, Sequences, FiniteSets, TLC

VARIABLES
  scope,      \* which part of the program is exercised (fixed by Init)
  req,        \* the parsed request body
  resp,       \* the response sent with res.json, NoResp before
  respCount,  \* number of res.json calls made
  overall,    \* the handler's Promise.race timer: [due, settled]
  results,    \* handler's `results` (direct modes) / value of the scan promise
  scan,       \* the scan coroutine of a direct mode
  an,         \* the analyzeWalletForInsiderPatterns activations, by slot
  disc,       \* discoverFreshWallets / discoverWalletsInternal
  batch,      \* processWalletBatch / processBatchInternal
  gwCalls,    \* number of ledger gateway calls issued so far
  gwLog,      \* addresses a call was issued for / a call succeeded for, and
              \* per slot the number of records fetched with their balances
  cut,        \* the sub-operations that lost a race to their timer
  faults,     \* number of deviations of the gateway from a prompt answer in order
  gwDown,     \* the gateway has stopped answering
  window      \* scope "window": the subject's history as the gateway holds it

vars == <<scope, req, resp, respCount, overall, results, scan, an, disc,
          batch, gwCalls, gwLog, cut, faults, gwDown, window>>

(***************************************************************************)
(* Bounds of the model                                                     *)
(***************************************************************************)
MaxBatch == 2        \* longest batchWallets list of a request
MaxGwCalls == 60     \* the gateway call counter stops counting here
MaxWindow == 2       \* longest history of scope "window"
MaxFaults == 2       \* most deviations of the gateway during one request: a call
                     \* that is slow, hangs, fails or is overtaken, or the outage

(***************************************************************************)
(* Program constants                                                       *)
(***************************************************************************)
Binance2 == "Binance2"      \* 5tzFkiKscXHK5ZXCGbXZxdw7gTjjD1mBwuoFbhUvuAi9
Changenow == "Changenow"    \* G2YxRa6wt1qePMwfJzdXZG62ej4qaTC7YURzuh2Lwd3t
insiderFundingWallets == <<Binance2, Changenow>>
SystemProgram == "11111111111111111111111111111111"

Sol == 1000000                   \* 1e9 lamports, in units of 1000 lamports
MinFunding == 500000             \* solAmount >= 0.5
MaxFunding == 2500000            \* solAmount <= 2.5
FreshPreBalance == 1             \* preBalance <= 1000 lamports
GoodPlayProfit == 100000         \* solChange > 0.1
QuickWindow == 60                \* timeDiff <= 60
GoodPlayWindow == 300            \* timeDiff > 300
QuickTradeThreshold == 3
GoodPlayThreshold == 1
TotalTradeThreshold == 10
MaxTransactions == 10            \* Math.min(signatures.length, 10)
MaxAnalysisDepth == 10           \* Math.min(depth, 10)
MaxScanDepth == 50               \* Math.min(scanDepth || 100, 50)
DefaultScanDepth == 50           \* scanDepth = 50
FallbackScanDepth == 100         \* scanDepth || 100
RecentSigLimit == 5              \* { limit: 5 }
RecentTxLimit == 3               \* Math.min(signatures.length, 3)
RecentMaxResults == 5            \* results.length >= 5
RecentDepth == 10                \* analyzeWalletForInsiderPatterns(.., 10)
DiscoverySigLimit == 100         \* { limit: 100 }
chunkSize == 10
batchSize == 5
DefaultMaxWallets == 1000        \* maxWalletsToDiscover = 1000

OverallTimeout == 80             \* 8000 ms
AutoDiscoveryTimeout == 450      \* 45000 ms
AccountInfoTimeout == 10         \* 1000 ms
TransactionTimeout == 10         \* 1000 ms, checkInsiderCriteria
RecentTxTimeout == 20            \* 2000 ms, scanRecentTransactions
RateLimitDelay == 2              \* 200 ms, scanBatchWallets
discoveryTimeout == 300          \* 30000 ms
SignaturesTimeout == 100         \* 10000 ms
TxFetchTimeout == 50             \* 5000 ms, discoverWalletsInternal
ChunkTimeout == 150              \* 15000 ms
ChunkDelay == 1                  \* 100 ms
batchTimeout == 200              \* 20000 ms
WalletAnalysisTimeout == 100     \* 10000 ms
BatchDelay == 1                  \* 100 ms

(***************************************************************************)
(* Values                                                                  *)
(***************************************************************************)
Null == "null"            \* JavaScript null / undefined for a string value
NoTimer == -1             \* no timer armed; an armed timer holds the time left
NoResp == [kind |-> "none"]
NaN == -2000000000        \* result of arithmetic on a missing balance

Min(a, b) == IF a <= b THEN a ELSE b
Abs(x) == IF x < 0 THEN -x ELSE x
Sub(a, b) == IF a = NaN \/ b = NaN THEN NaN ELSE a - b
Add(a, b) == IF a = NaN \/ b = NaN THEN NaN ELSE a + b
AbsN(x) == IF x = NaN THEN NaN ELSE Abs(x)
Gt(a, b) == a # NaN /\ b # NaN /\ a > b
Le(a, b) == a # NaN /\ b # NaN /\ a <= b
Ge(a, b) == a # NaN /\ b # NaN /\ a >= b
Lt(a, b) == a # NaN /\ b # NaN /\ a < b
At0(s) == IF Len(s) >= 1 THEN s[1] ELSE NaN        \* s[0] in JavaScript

\* Number.prototype.toFixed(4) and toFixed(2) of an amount of SOL: the result
\* is the decimal string, kept as the number of 0.0001 (0.01) it denotes.
ToFixed4(u) == IF u = NaN THEN NaN ELSE (u + 50) \div 100
ToFixed2(u) == IF u = NaN THEN NaN ELSE (u + 5000) \div 10000

SeedName(s) == IF s = Binance2 THEN "Binance 2" ELSE "Changenow"
IsSeed(k) == \E j \in 1..Len(insiderFundingWallets) : insiderFundingWallets[j] = k

(***************************************************************************)
(* checkInsiderCriteria: the body of the loop for one fetched transaction  *)
(***************************************************************************)
\* A transaction record as the gateway returns it:
\*   hasBal  tx.meta.preBalances and tx.meta.postBalances are both present
\*   hasKeys tx.transaction.message.accountKeys is present
\*   keys    the account keys; pre, post the balance arrays
\*   instrs  the instructions, each [programId, accounts]
MkTx(keys, pre, post) ==
  [hasBal |-> TRUE, hasKeys |-> TRUE, keys |-> keys, pre |-> pre, post |-> post,
   instrs |-> <<>>]

RECURSIVE FundingScanRecordsStale(_, _, _, _)
FundingScanRecordsStale(keys, j, tx, f) ==
  IF j > Len(keys) THEN f
  ELSE
    LET keyString == keys[j]
        preBalance == At0(tx.pre)
        postBalance == At0(tx.post)
        balanceChange == Sub(postBalance, preBalance)
        solAmount == balanceChange
        isFreshWallet == Le(preBalance, FreshPreBalance)
        hit == /\ IsSeed(keyString)
               /\ Gt(balanceChange, 0)
               /\ Ge(solAmount, MinFunding) /\ Le(solAmount, MaxFunding)
        g == IF hit
             THEN [fundingSource |-> keyString, fundingAmount |-> solAmount,
                   isFirstFunding |-> isFreshWallet]
             ELSE f
    IN FundingScanRecordsStale(keys, j + 1, tx, g)

RECURSIVE FundingScanFirstWins(_, _, _, _)
FundingScanFirstWins(keys, j, tx, f) ==
  IF j > Len(keys) THEN f
  ELSE
    LET keyString == keys[j]
        preBalance == At0(tx.pre)
        postBalance == At0(tx.post)
        balanceChange == Sub(postBalance, preBalance)
        solAmount == balanceChange
        isFreshWallet == Le(preBalance, FreshPreBalance)
        hit == /\ IsSeed(keyString)
               /\ Gt(balanceChange, 0)
               /\ Ge(solAmount, MinFunding) /\ Le(solAmount, MaxFunding)
               /\ isFreshWallet
        g == IF hit /\ f.fundingSource = Null
             THEN [fundingSource |-> keyString, fundingAmount |-> solAmount,
                   isFirstFunding |-> TRUE]
             ELSE f
    IN FundingScanFirstWins(keys, j + 1, tx, g)

\* lines 626-653: every account key that is a seed address is tested against
\* the balance change at index 0; a later qualifying key overwrites an earlier.
RECURSIVE FundingScan(_, _, _, _)
FundingScan(keys, j, tx, f) ==
  IF j > Len(keys) THEN f
  ELSE
    LET keyString == keys[j]
        preBalance == At0(tx.pre)
        postBalance == At0(tx.post)
        balanceChange == Sub(postBalance, preBalance)
        solAmount == balanceChange
        isFreshWallet == Le(preBalance, FreshPreBalance)
        hit == /\ IsSeed(keyString)
               /\ Gt(balanceChange, 0)
               /\ Ge(solAmount, MinFunding) /\ Le(solAmount, MaxFunding)
               /\ isFreshWallet
        g == IF hit
             THEN [fundingSource |-> keyString, fundingAmount |-> solAmount,
                   isFirstFunding |-> TRUE]
             ELSE f
    IN FundingScan(keys, j + 1, tx, g)

QuickTradeStrict(i, prevBT, curBT) ==
  i > 0 /\ prevBT # 0 /\ curBT # 0 /\ Abs(prevBT - curBT) < QuickWindow

\* lines 667-676
QuickTrade(i, prevBT, curBT) ==
  i > 0 /\ prevBT # 0 /\ curBT # 0 /\ Abs(prevBT - curBT) <= QuickWindow

GoodPlayAnyGap(i, prevBT, curBT, balanceChange) ==
  /\ i > 0 /\ prevBT # 0 /\ curBT # 0
  /\ Gt(balanceChange, GoodPlayProfit)

GoodPlayInclusive(i, prevBT, curBT, balanceChange) ==
  /\ i > 0 /\ prevBT # 0 /\ curBT # 0
  /\ Ge(balanceChange, GoodPlayProfit)
  /\ Abs(prevBT - curBT) >= GoodPlayWindow

\* lines 678-687
GoodPlay(i, prevBT, curBT, balanceChange) ==
  /\ i > 0 /\ prevBT # 0 /\ curBT # 0
  /\ Gt(balanceChange, GoodPlayProfit)
  /\ Abs(prevBT - curBT) > GoodPlayWindow

ProcessTxQuickOutside(t, tx, curBT) ==
  IF ~tx.hasBal
  THEN [t EXCEPT !.quickTrades = IF QuickTrade(t.i, t.bt, curBT) THEN @ + 1 ELSE @]
  ELSE
    LET f0 == [fundingSource |-> t.fundingSource,
               fundingAmount |-> t.fundingAmount,
               isFirstFunding |-> t.isFirstFunding]
        f == IF tx.hasKeys THEN FundingScan(tx.keys, 1, tx, f0) ELSE f0
        balanceChange == Sub(At0(tx.post), At0(tx.pre))
        quick == QuickTrade(t.i, t.bt, curBT)
        good == GoodPlay(t.i, t.bt, curBT, balanceChange)
    IN [t EXCEPT
          !.fundingSource = f.fundingSource,
          !.fundingAmount = f.fundingAmount,
          !.isFirstFunding = f.isFirstFunding,
          !.totalTrades = @ + 1,
          !.totalProfit = IF Gt(balanceChange, 0) THEN Add(@, balanceChange) ELSE @,
          !.quickTrades = IF quick THEN @ + 1 ELSE @,
          !.washTradeVolume = IF quick THEN Add(@, AbsN(balanceChange)) ELSE @,
          !.goodPlays = IF good THEN @ + 1 ELSE @]

ProcessTxNeedsBlockTime(t, tx, curBT) ==
  IF ~tx.hasBal \/ curBT = 0 THEN t
  ELSE
    LET f0 == [fundingSource |-> t.fundingSource,
               fundingAmount |-> t.fundingAmount,
               isFirstFunding |-> t.isFirstFunding]
        f == IF tx.hasKeys THEN FundingScan(tx.keys, 1, tx, f0) ELSE f0
        balanceChange == Sub(At0(tx.post), At0(tx.pre))
        quick == QuickTrade(t.i, t.bt, curBT)
        good == GoodPlay(t.i, t.bt, curBT, balanceChange)
    IN [t EXCEPT
          !.fundingSource = f.fundingSource,
          !.fundingAmount = f.fundingAmount,
          !.isFirstFunding = f.isFirstFunding,
          !.totalTrades = @ + 1,
          !.totalProfit = IF Gt(balanceChange, 0) THEN Add(@, balanceChange) ELSE @,
          !.quickTrades = IF quick THEN @ + 1 ELSE @,
          !.washTradeVolume = IF quick THEN Add(@, AbsN(balanceChange)) ELSE @,
          !.goodPlays = IF good THEN @ + 1 ELSE @]

ProcessTxProfitOnly(t, tx, curBT) ==
  IF ~tx.hasBal THEN t
  ELSE
    LET f0 == [fundingSource |-> t.fundingSource,
               fundingAmount |-> t.fundingAmount,
               isFirstFunding |-> t.isFirstFunding]
        f == IF tx.hasKeys THEN FundingScan(tx.keys, 1, tx, f0) ELSE f0
        balanceChange == Sub(At0(tx.post), At0(tx.pre))
        quick == QuickTrade(t.i, t.bt, curBT)
        good == GoodPlay(t.i, t.bt, curBT, balanceChange)
    IN [t EXCEPT
          !.fundingSource = f.fundingSource,
          !.fundingAmount = f.fundingAmount,
          !.isFirstFunding = f.isFirstFunding,
          !.totalTrades = IF Gt(balanceChange, 0) THEN @ + 1 ELSE @,
          !.totalProfit = IF Gt(balanceChange, 0) THEN Add(@, balanceChange) ELSE @,
          !.quickTrades = IF quick THEN @ + 1 ELSE @,
          !.washTradeVolume = IF quick THEN Add(@, AbsN(balanceChange)) ELSE @,
          !.goodPlays = IF good THEN @ + 1 ELSE @]

\* lines 623-688: t is the activation (its locals), tx the fetched record,
\* curBT = signatures[i].blockTime, t.bt = signatures[i-1].blockTime.
ProcessTx(t, tx, curBT) ==
  IF ~tx.hasBal THEN t
  ELSE
    LET f0 == [fundingSource |-> t.fundingSource,
               fundingAmount |-> t.fundingAmount,
               isFirstFunding |-> t.isFirstFunding]
        f == IF tx.hasKeys THEN FundingScan(tx.keys, 1, tx, f0) ELSE f0
        balanceChange == Sub(At0(tx.post), At0(tx.pre))
        quick == QuickTrade(t.i, t.bt, curBT)
        good == GoodPlay(t.i, t.bt, curBT, balanceChange)
    IN [t EXCEPT
          !.fundingSource = f.fundingSource,
          !.fundingAmount = f.fundingAmount,
          !.isFirstFunding = f.isFirstFunding,
          !.totalTrades = @ + 1,
          !.totalProfit = IF Gt(balanceChange, 0) THEN Add(@, balanceChange) ELSE @,
          !.quickTrades = IF quick THEN @ + 1 ELSE @,
          !.washTradeVolume = IF quick THEN Add(@, AbsN(balanceChange)) ELSE @,
          !.goodPlays = IF good THEN @ + 1 ELSE @]

(***************************************************************************)
(* checkInsiderCriteria: verdict, reason and patterns (lines 701-761)      *)
(***************************************************************************)
InBand(a) == Ge(a, MinFunding) /\ Le(a, MaxFunding)

IsInsiderRuleAs(src, first, amt, q, g, n) ==
  /\ src # Null
  /\ first
  /\ amt >= MinFunding
  /\ amt <= MaxFunding
  /\ q > QuickTradeThreshold
  /\ g >= GoodPlayThreshold
  /\ n >= TotalTradeThreshold

IsInsiderRuleNoSource(src, first, amt, q, g, n) ==
  /\ q >= QuickTradeThreshold
  /\ g >= GoodPlayThreshold
  /\ n >= TotalTradeThreshold

IsInsiderRuleFewTrades(src, first, amt, q, g, n) ==
  /\ src # Null
  /\ first
  /\ amt >= MinFunding
  /\ amt <= MaxFunding
  /\ q >= QuickTradeThreshold
  /\ g >= GoodPlayThreshold
  /\ n >= TotalTradeThreshold - 1

\* lines 702-710
IsInsiderRule(src, first, amt, q, g, n) ==
  /\ src # Null
  /\ first
  /\ amt >= MinFunding
  /\ amt <= MaxFunding
  /\ q >= QuickTradeThreshold
  /\ g >= GoodPlayThreshold
  /\ n >= TotalTradeThreshold

SeqIf(c, x) == IF c THEN <<x>> ELSE <<>>

MissingAtThreshold(t) ==
  SeqIf(t.fundingSource = Null, [tag |-> "Not funded by insider wallet", n |-> 0])
  \o SeqIf(~t.isFirstFunding, [tag |-> "Not a fresh wallet", n |-> 0])
  \o SeqIf(t.fundingAmount < MinFunding \/ t.fundingAmount > MaxFunding,
           [tag |-> "Funding amount outside 0.5-2.5 range",
            n |-> ToFixed4(t.fundingAmount)])
  \o SeqIf(t.quickTrades <= QuickTradeThreshold,
           [tag |-> "Need more wash trades", n |-> QuickTradeThreshold - t.quickTrades])
  \o SeqIf(t.goodPlays < GoodPlayThreshold,
           [tag |-> "Need more good plays", n |-> GoodPlayThreshold - t.goodPlays])
  \o SeqIf(t.totalTrades < TotalTradeThreshold,
           [tag |-> "Need more total trades", n |-> TotalTradeThreshold - t.totalTrades])

\* lines 732-738
Missing(t) ==
  SeqIf(t.fundingSource = Null, [tag |-> "Not funded by insider wallet", n |-> 0])
  \o SeqIf(~t.isFirstFunding, [tag |-> "Not a fresh wallet", n |-> 0])
  \o SeqIf(t.fundingAmount < MinFunding \/ t.fundingAmount > MaxFunding,
           [tag |-> "Funding amount outside 0.5-2.5 range",
            n |-> ToFixed4(t.fundingAmount)])
  \o SeqIf(t.quickTrades < QuickTradeThreshold,
           [tag |-> "Need more wash trades", n |-> QuickTradeThreshold - t.quickTrades])
  \o SeqIf(t.goodPlays < GoodPlayThreshold,
           [tag |-> "Need more good plays", n |-> GoodPlayThreshold - t.goodPlays])
  \o SeqIf(t.totalTrades < TotalTradeThreshold,
           [tag |-> "Need more total trades", n |-> TotalTradeThreshold - t.totalTrades])

PatternsOfInsider(t) ==
  IF ~IsInsiderRule(t.fundingSource, t.isFirstFunding, t.fundingAmount,
                    t.quickTrades, t.goodPlays, t.totalTrades)
  THEN <<>>
  ELSE
    SeqIf(t.fundingSource # Null /\ t.isFirstFunding,
          "FRESH wallet FIRST funded by " \o SeedName(t.fundingSource))
    \o SeqIf(t.fundingAmount >= MinFunding /\ t.fundingAmount <= MaxFunding,
             "Optimal Funding Range")
    \o SeqIf(t.quickTrades >= QuickTradeThreshold, "High Wash Trading")
    \o SeqIf(t.goodPlays >= GoodPlayThreshold, "Hidden Good Plays")
    \o SeqIf(t.totalTrades >= TotalTradeThreshold, "High Transaction Volume")

\* lines 743-748
Patterns(t) ==
  SeqIf(t.fundingSource # Null /\ t.isFirstFunding,
        "FRESH wallet FIRST funded by " \o SeedName(t.fundingSource))
  \o SeqIf(t.fundingAmount >= MinFunding /\ t.fundingAmount <= MaxFunding,
           "Optimal Funding Range")
  \o SeqIf(t.quickTrades >= QuickTradeThreshold, "High Wash Trading")
  \o SeqIf(t.goodPlays >= GoodPlayThreshold, "Hidden Good Plays")
  \o SeqIf(t.totalTrades >= TotalTradeThreshold, "High Transaction Volume")

InsiderAnalysisRawAmount(t) ==
  LET isInsider == IsInsiderRule(t.fundingSource, t.isFirstFunding, t.fundingAmount,
                                 t.quickTrades, t.goodPlays, t.totalTrades)
  IN [isInsider |-> isInsider,
      reason |-> IF isInsider
                 THEN [insider |-> TRUE,
                       source |-> SeedName(t.fundingSource),
                       amount |-> ToFixed4(t.fundingAmount),
                       quickTrades |-> t.quickTrades, goodPlays |-> t.goodPlays,
                       missing |-> <<>>]
                 ELSE [insider |-> FALSE, source |-> Null, amount |-> 0,
                       quickTrades |-> 0, goodPlays |-> 0, missing |-> Missing(t)],
      fundingSource |-> t.fundingSource,
      fundingAmount |-> t.fundingAmount,
      quickTrades |-> t.quickTrades,
      goodPlays |-> t.goodPlays,
      washTradeVolume |-> ToFixed2(t.washTradeVolume),
      totalProfit |-> ToFixed2(t.totalProfit),
      patterns |-> Patterns(t),
      totalTrades |-> t.totalTrades]

\* lines 701-761: the value checkInsiderCriteria returns
InsiderAnalysis(t) ==
  LET isInsider == IsInsiderRule(t.fundingSource, t.isFirstFunding, t.fundingAmount,
                                 t.quickTrades, t.goodPlays, t.totalTrades)
  IN [isInsider |-> isInsider,
      reason |-> IF isInsider
                 THEN [insider |-> TRUE,
                       source |-> SeedName(t.fundingSource),
                       amount |-> ToFixed4(t.fundingAmount),
                       quickTrades |-> t.quickTrades, goodPlays |-> t.goodPlays,
                       missing |-> <<>>]
                 ELSE [insider |-> FALSE, source |-> Null, amount |-> 0,
                       quickTrades |-> 0, goodPlays |-> 0, missing |-> Missing(t)],
      fundingSource |-> t.fundingSource,
      fundingAmount |-> ToFixed4(t.fundingAmount),
      quickTrades |-> t.quickTrades,
      goodPlays |-> t.goodPlays,
      washTradeVolume |-> ToFixed2(t.washTradeVolume),
      totalProfit |-> ToFixed2(t.totalProfit),
      patterns |-> Patterns(t),
      totalTrades |-> t.totalTrades]

\* lines 535-550: the value analyzeWalletForInsiderPatterns returns.
\* fundingAmount is the toFixed(4) string; amountIsString tells it from the
\* number that processBatchInternal stores there later.
WalletData(t) ==
  LET ia == InsiderAnalysis(t)
  IN [address |-> t.addr,
      balance |-> ToFixed4(t.lamports),
      transactions |-> t.nsigs,
      tokens |-> 0,
      isInsider |-> ia.isInsider,
      insiderReason |-> ia.reason,
      fundingSource |-> ia.fundingSource,
      fundingAmount |-> ia.fundingAmount,
      amountIsString |-> TRUE,
      quickTrades |-> ia.quickTrades,
      goodPlays |-> ia.goodPlays,
      washTradeVolume |-> ia.washTradeVolume,
      totalProfit |-> ia.totalProfit,
      detectedPatterns |-> ia.patterns,
      analysisDepth |-> t.depth]

(***************************************************************************)
(* The ledger gateway: what its calls may answer                           *)
(***************************************************************************)
\* Addresses of the model.  W1 and W2 have a history of ten transactions, W3 none.
Wallets == {"W1", "W2", "W3"}

\* a record the gateway returns without its meta (tx.meta is null)
NoMeta ==
  [hasBal |-> FALSE, hasKeys |-> FALSE, keys |-> <<>>, pre |-> <<>>, post |-> <<>>,
   instrs |-> <<>>]

Fund(seed, pre, amount) == MkTx(<<"W", seed>>, <<pre>>, <<pre + amount>>)
Trade(pre, change) == MkTx(<<"W", "Market">>, <<pre>>, <<pre + change>>)

\* scope "deep": a history of up to ten transactions, each fetch answered
\* freely with one of these records and one of two block times
TxUniverse ==
  { Fund(Binance2, 0, Sol), Fund(Changenow, 0, Sol), Trade(Sol, Sol),
    Trade(Sol, -Sol), NoMeta }

BlockTimes == {1000, 1700}

WindowLengths == {0, 3, 10}

\* the other scopes: the history of each wallet is fixed, newest first.  W1
\* and W2 trade alike; W1 was funded in band by a seed, W2 out of band.
History(funding) ==
  << [tx |-> Trade(Sol, 200000), bt |-> 4900],
     [tx |-> Trade(Sol, 200000), bt |-> 4300],
     [tx |-> Trade(Sol, -10000), bt |-> 4260],
     [tx |-> Trade(Sol, -10000), bt |-> 4220],
     [tx |-> Trade(Sol, -10000), bt |-> 4180],
     [tx |-> Trade(Sol, -10000), bt |-> 4140],
     [tx |-> Trade(Sol, -10000), bt |-> 4100],
     [tx |-> Trade(Sol, -10000), bt |-> 4060],
     [tx |-> Trade(Sol, -10000), bt |-> 4020],
     [tx |-> funding, bt |-> 3980] >>

Ledger(addr) ==
  IF addr = "W1" THEN History(Fund(Binance2, 0, Sol))
  ELSE IF addr = "W2" THEN History(Fund(Changenow, 0, 3 * Sol))
  ELSE << >>

\* the records getTransaction may return for signatures[i] of addr (i from 0)
TxChoices(addr, i) ==
  IF scope = "deep" THEN TxUniverse
  ELSE IF scope = "window" THEN {window[i + 1].tx}
  ELSE IF i + 1 <= Len(Ledger(addr)) THEN {Ledger(addr)[i + 1].tx} ELSE {}

\* the values signatures[i].blockTime may have
BtChoices(addr, i) ==
  IF scope = "deep" THEN BlockTimes
  ELSE IF scope = "window" THEN {window[i + 1].bt}
  ELSE IF i + 1 <= Len(Ledger(addr)) THEN {Ledger(addr)[i + 1].bt} ELSE {0}

\* the lengths getSignaturesForAddress(addr, {limit}) may return
SigCounts(addr, limit) ==
  IF scope = "deep" THEN {n \in WindowLengths : n <= limit}
  ELSE IF scope = "window" THEN {Min(Len(window), limit)}
  ELSE {Min(Len(Ledger(addr)), limit)}

\* accountInfo.lamports
Lamports(addr) == IF addr = "W1" THEN 1234567 ELSE 0

\* a transfer of amount from a seed (fee payer, index 0) to dest (index 1)
Transfer(seed, dest, amount) ==
  [hasBal |-> TRUE, hasKeys |-> TRUE,
   keys |-> <<seed, dest, SystemProgram>>,
   pre |-> <<10 * Sol, 0, 1>>,
   post |-> <<10 * Sol - amount - 5, amount, 1>>,
   instrs |-> <<[programId |-> SystemProgram, accounts |-> <<seed, dest>>]>>]

\* one transaction of a seed with a transfer to each of three accounts: a to
\* d1 (index 1), b to d2 (index 2), c to d3 (index 3)
Payout(seed, d1, a, d2, b, d3, c) ==
  [hasBal |-> TRUE, hasKeys |-> TRUE,
   keys |-> <<seed, d1, d2, d3, SystemProgram>>,
   pre |-> <<20 * Sol, 0, 0, 0, 1>>,
   post |-> <<20 * Sol - a - b - c - 5, a, b, c, 1>>,
   instrs |-> <<[programId |-> SystemProgram, accounts |-> <<seed, d1>>],
                [programId |-> SystemProgram, accounts |-> <<seed, d2>>],
                [programId |-> SystemProgram, accounts |-> <<seed, d3>>]>>]

\* a transaction of a seed that moves no native currency to another account
Noise(seed) ==
  [hasBal |-> TRUE, hasKeys |-> TRUE,
   keys |-> <<seed, "Market", "Token">>,
   pre |-> <<10 * Sol, 0, 1>>,
   post |-> <<10 * Sol - 5, 0, 1>>,
   instrs |-> <<[programId |-> "Token", accounts |-> <<seed, "Market">>]>>]

\* the recent transactions of the seed addresses, newest first: Binance 2
\* has more than one chunk of them, its three newest pay three accounts each
\* (six accounts in band between them, W2 twice out of band), W3 is funded
\* several times and by both seeds
SeedLedger(seed) ==
  IF seed = Binance2
  THEN << Payout(Binance2, "W1", Sol, "W2", 2 * Sol, "W3", 2 * Sol),
          Payout(Binance2, "W2", 3 * Sol, "W3", Sol, "W4", Sol),
          Payout(Binance2, "W2", 3 * Sol, "W5", Sol, "W6", Sol),
          Transfer(Binance2, "W3", MinFunding), Transfer(Binance2, "W3", MaxFunding),
          Noise(Binance2), Noise(Binance2), Noise(Binance2), Noise(Binance2),
          Noise(Binance2), Noise(Binance2) >>
  ELSE << Transfer(Changenow, "W3", Sol), Transfer(Changenow, "W2", 3 * Sol) >>

\* the number of signatures getSignaturesForAddress(seed, {limit}) returns
SeedSigCount(seed, limit) == Min(Len(SeedLedger(seed)), limit)

(***************************************************************************)
(* One activation of analyzeWalletForInsiderPatterns (lines 507-556) with  *)
(* the checkInsiderCriteria call inside it (lines 584-778)                 *)
(***************************************************************************)
NoResult == [address |-> Null]      \* analyzeWallet has not returned a record

IdleTask ==
  [pc |-> "idle", ctx |-> "none", addr |-> Null, depth |-> 0, lamports |-> 0,
   nsigs |-> 0, i |-> 0, bt |-> 0, due |-> NoTimer, late |-> FALSE,
   fundingSource |-> Null, fundingAmount |-> 0, isFirstFunding |-> FALSE,
   quickTrades |-> 0, goodPlays |-> 0, totalTrades |-> 0, totalProfit |-> 0,
   washTradeVolume |-> 0, res |-> NoResult]

\* one slot for every wallet a request can have analysed at the same time
Slots == 1..7

Inc(n) == IF n < MaxGwCalls THEN n + 1 ELSE n

\* a call into the ledger gateway on behalf of address a is issued
Call(s, a) == [s EXCEPT !.gwCalls = Inc(@), !.gwLog.called = @ \cup {a}]
\* a call on behalf of address a returned a value before its deadline
Answered(s, a) == [s EXCEPT !.gwLog.ok = @ \cup {a}]
\* the record tx holds preBalances[0] and postBalances[0]
HasBalances(tx) == tx.hasBal /\ Len(tx.pre) >= 1 /\ Len(tx.post) >= 1
\* getTransaction returned the record tx to the analysis in slot k
Fetched(s, k, tx) ==
  [s EXCEPT !.gwLog.records[k] = @ + (IF HasBalances(tx) THEN 1 ELSE 0)]
\* the sub-operation named op lost the race to its timer
Cut(s, op) == [s EXCEPT !.cut = @ \cup {op}]

\* The gateway answers the calls in flight in a fixed order: the signatures
\* call of discovery, the transaction fetches of a chunk by index, the calls
\* of the wallet analyses by slot.  A call that answers while calls before it
\* are still in flight overtakes them: they are slow from then on, and each
\* counts as a deviation.  pos is the place of the answering call.
AnPos(k) == chunkSize + k
InFlight(t) == t.pc \in {"acct", "sigs", "tx"}
Overtaken(s, pos, late) ==
  IF late THEN 0
  ELSE (IF pos > 0 /\ s.disc.pc = "sigs" /\ ~s.disc.late THEN 1 ELSE 0)
       + Cardinality({j \in 1..Len(s.disc.items) : j < pos /\ s.disc.items[j] = "pending"})
       + Cardinality({k \in Slots : AnPos(k) < pos /\ InFlight(s.an[k]) /\ ~s.an[k].late})
Overtake(s, pos, late) ==
  IF Overtaken(s, pos, late) = 0 THEN s
  ELSE [s EXCEPT
          !.faults = @ + Overtaken(s, pos, late),
          !.disc.late = @ \/ (pos > 0 /\ s.disc.pc = "sigs"),
          !.disc.items = [j \in 1..Len(@) |->
                            IF j < pos /\ @[j] = "pending" THEN "late" ELSE @[j]],
          !.an = [k \in Slots |->
                    IF AnPos(k) < pos /\ InFlight(@[k])
                    THEN [@[k] EXCEPT !.late = TRUE] ELSE @[k]]]
\* a call fails (null or an error); late tells that it was counted as slow before
Failed(s, late) == IF late \/ scope = "deep" THEN s ELSE [s EXCEPT !.faults = @ + 1]
\* the calls in flight that are not slow
Prompt(s) ==
  (IF s.disc.pc = "sigs" /\ ~s.disc.late THEN 1 ELSE 0)
  + Cardinality({j \in 1..Len(s.disc.items) : s.disc.items[j] = "pending"})
  + Cardinality({k \in Slots : InFlight(s.an[k]) /\ ~s.an[k].late})
  + (IF s.scan.pc \in {"sigs", "tx"} /\ ~s.scan.late THEN 1 ELSE 0)
\* the call at pos may answer with a value, or fail, within the deviations
\* left; a slow call answers when the prompt ones have answered
MayAnswer(s, pos, late) ==
  /\ ~s.gwDown
  /\ late => Prompt(s) = 0
  /\ s.faults + Overtaken(s, pos, late) <= MaxFaults
MayFail(s, pos, late) ==
  /\ scope # "window"
  /\ ~s.gwDown
  /\ late => Prompt(s) = 0
  /\ s.faults + Overtaken(s, pos, late)
       + (IF late \/ scope = "deep" THEN 0 ELSE 1) <= MaxFaults

\* lines 509-518: the activation up to its first await.  The program state is
\* passed around as a record s so that a callee's return can continue in its
\* caller within the same step, as promise continuations do.
StartAnalysis(s, k, addr, depth, ctx) ==
  Call([s EXCEPT !.an[k] = [IdleTask EXCEPT !.pc = "acct", !.ctx = ctx, !.addr = addr,
                                            !.depth = Min(depth, MaxAnalysisDepth),
                                            !.due = AccountInfoTimeout]],
       addr)

(***************************************************************************)
(* handler: sending the response and the overall race (lines 281-336)      *)
(***************************************************************************)
\* res.json(obj): the first call sends the response
SendJson(s, r) ==
  [s EXCEPT !.resp = IF s.respCount = 0 THEN r ELSE @, !.respCount = @ + 1]

\* lines 305-311
ScanSuccess(res) ==
  [kind |-> "scan", success |-> TRUE, hasData |-> TRUE, data |-> res,
   error |-> Null, message |-> "Found wallets with insider patterns"]

\* lines 313-335, error.message includes 'timeout'
ScanTimedOut ==
  [kind |-> "failed", success |-> FALSE, hasData |-> FALSE, data |-> <<>>,
   error |-> "Scan timed out - try reducing scan depth or use specific wallet scan instead",
   message |-> "Scan failed on backend"]

\* lines 264-265 and 313-335: error.message holds 'timed out', not 'timeout'
AutoTimedOut ==
  [kind |-> "failed", success |-> FALSE, hasData |-> FALSE, data |-> <<>>,
   error |-> "Auto-discovery timed out - try reducing max wallets or scan depth",
   message |-> "Scan failed on backend"]

ScanResolvedTwice(s, res) ==
  LET s1 == [s EXCEPT !.results = res, !.scan.pc = "done", !.scan.due = NoTimer,
                      !.scan.late = FALSE]
  IN SendJson([s1 EXCEPT !.overall.settled = TRUE], ScanSuccess(res))

\* lines 284-311: the scan function returned res; `results = await ...` is
\* assigned, scanPromise resolves and, when the race is still open, the handler
\* sends the success response.
ScanResolved(s, res) ==
  LET s1 == [s EXCEPT !.results = res, !.scan.pc = "done", !.scan.due = NoTimer,
                      !.scan.late = FALSE]
  IN IF s1.overall.settled THEN s1
     ELSE SendJson([s1 EXCEPT !.overall.settled = TRUE], ScanSuccess(res))

(***************************************************************************)
(* scanBatchWallets (lines 484-504)                                        *)
(***************************************************************************)
\* the loop head: the next wallet is analysed, or the function returns
BatchLoop(s) ==
  IF s.scan.idx + 1 <= Len(s.scan.wallets)
  THEN StartAnalysis([s EXCEPT !.scan.idx = @ + 1, !.scan.pc = "analyzing",
                               !.scan.due = NoTimer],
                     1, s.scan.wallets[s.scan.idx + 1], s.scan.depth, "batch")
  ELSE ScanResolved(s, s.scan.res)

\* lines 489-495: analyzeWallet returned value; then the 200 ms pause
BatchAnalysed(s, value) ==
  [s EXCEPT !.scan.res = IF value # NoResult THEN Append(@, value) ELSE @,
            !.scan.pc = "delay",
            !.scan.due = RateLimitDelay]

(***************************************************************************)
(* scanRecentTransactions (lines 340-426) and findFundedWallets (429-470)  *)
(***************************************************************************)
\* lines 447-461: accounts other than the funding wallet whose balance rose by
\* an amount within the band, in account order
RECURSIVE FundedFrom(_, _, _)
FundedFrom(tx, fundingWalletIndex, i) ==
  IF i > Len(tx.keys) THEN <<>>
  ELSE
    LET balanceChange == IF i <= Len(tx.pre) /\ i <= Len(tx.post)
                         THEN tx.post[i] - tx.pre[i] ELSE NaN
        take == /\ i # fundingWalletIndex
                /\ i <= Len(tx.pre) /\ i <= Len(tx.post)
                /\ balanceChange > 0
                /\ balanceChange >= MinFunding /\ balanceChange <= MaxFunding
    IN SeqIf(take, [address |-> tx.keys[i], amount |-> balanceChange])
       \o FundedFrom(tx, fundingWalletIndex, i + 1)

\* lines 429-470
findFundedWallets(tx, fundingWallet) ==
  IF ~tx.hasKeys THEN <<>>
  ELSE
    LET idxs == {j \in 1..Len(tx.keys) : tx.keys[j] = fundingWallet}
        fundingWalletIndex == IF idxs = {} THEN 0
                              ELSE CHOOSE j \in idxs : \A m \in idxs : j <= m
    IN IF fundingWalletIndex = 0 THEN <<>>
       ELSE IF ~(fundingWalletIndex <= Len(tx.pre) /\ fundingWalletIndex <= Len(tx.post))
       THEN <<>>
       ELSE IF tx.post[fundingWalletIndex] - tx.pre[fundingWalletIndex] < 0
       THEN FundedFrom(tx, fundingWalletIndex, 1)
       ELSE <<>>

HasAddress(res, a) == \E j \in 1..Len(res) : res[j].address = a

\* lines 368-413: the head of the transaction loop
RecentTxLoop(s) ==
  IF s.scan.i < Min(s.scan.nsigs, RecentTxLimit)
  THEN Call([s EXCEPT !.scan.pc = "tx", !.scan.due = RecentTxTimeout,
                      !.scan.late = FALSE, !.scan.funded = <<>>], Binance2)
  ELSE ScanResolved(s, s.scan.res)

RECURSIVE RecentFundedLoopUncapped(_)
RecentFundedLoopUncapped(s) ==
  IF s.scan.funded = <<>>
  THEN RecentTxLoop([s EXCEPT !.scan.i = @ + 1])
  ELSE IF HasAddress(s.scan.res, Head(s.scan.funded).address)
  THEN RecentFundedLoopUncapped([s EXCEPT !.scan.funded = Tail(@)])
  ELSE StartAnalysis([s EXCEPT !.scan.funded = Tail(@), !.scan.pc = "analyzing",
                               !.scan.due = NoTimer, !.scan.late = FALSE],
                     1, Head(s.scan.funded).address, RecentDepth, "recent")

\* lines 388-403: the loop over the funded wallets of one transaction
RECURSIVE RecentFundedLoop(_)
RecentFundedLoop(s) ==
  IF Len(s.scan.res) >= RecentMaxResults THEN ScanResolved(s, s.scan.res)
  ELSE IF s.scan.funded = <<>>
  THEN RecentTxLoop([s EXCEPT !.scan.i = @ + 1])
  ELSE IF HasAddress(s.scan.res, Head(s.scan.funded).address)
  THEN RecentFundedLoop([s EXCEPT !.scan.funded = Tail(@)])
  ELSE StartAnalysis([s EXCEPT !.scan.funded = Tail(@), !.scan.pc = "analyzing",
                               !.scan.due = NoTimer, !.scan.late = FALSE],
                     1, Head(s.scan.funded).address, RecentDepth, "recent")

\* lines 393-400: analyzeWallet returned value
RecentAnalysed(s, value) ==
  RecentFundedLoop([s EXCEPT !.scan.res = IF value # NoResult THEN Append(@, value) ELSE @])

(***************************************************************************)
(* handler, auto-discovery mode (lines 210-276)                            *)
(***************************************************************************)
\* lines 222-229 and 251-258: the object the auto-discovery promise resolves
\* to; data stands for its `wallets` field
AutoResult(wallets, totalScanned) ==
  [kind |-> "auto", success |-> TRUE, hasData |-> TRUE, data |-> wallets,
   error |-> Null,
   message |-> IF totalScanned = 0
               THEN "No fresh wallets found in recent transactions"
               ELSE "Auto-discovery completed",
   totalScanned |-> totalScanned, insidersFound |-> Len(wallets)]

\* lines 262-273: the auto-discovery promise resolves; when the race is still
\* open the handler sends the result
AutoResolved(s, result) ==
  IF s.overall.settled THEN s
  ELSE SendJson([s EXCEPT !.overall.settled = TRUE], result)

(***************************************************************************)
(* processWalletBatch (lines 918-954), processBatchInternal (956-992)      *)
(***************************************************************************)
IdleBatch ==
  [pc |-> "idle", wallets |-> <<>>, depth |-> 0, i |-> 0, settled |-> {},
   val |-> [k \in Slots |-> NoResult], all |-> <<>>, stepDue |-> NoTimer,
   due |-> NoTimer]

\* the slots of the wallets of the batch that starts at index i
BatchSlots(b) == {k \in Slots : b.i < k /\ k <= Min(b.i + batchSize, Len(b.wallets))}

\* lines 957-968: batch.map starts the analysis of every wallet of the batch
RECURSIVE StartWallets(_, _, _)
StartWallets(s, k, last) ==
  IF k > last THEN s
  ELSE StartWallets(StartAnalysis(s, k, s.batch.wallets[k].address, s.batch.depth,
                                  "disc"),
                    k + 1, last)

\* the values of the slots first..last that are not null, in order
RECURSIVE ValidResults(_, _, _)
ValidResults(val, first, last) ==
  IF first > last THEN <<>>
  ELSE SeqIf(val[first] # NoResult, val[first]) \o ValidResults(val, first + 1, last)

IsInsiderWallet(w) == w.isInsider

ProcessBatchLoopLiveSet(s) ==
  LET live == [s EXCEPT !.batch.wallets = s.disc.found]
  IN IF live.batch.i < Len(live.batch.wallets)
     THEN StartWallets([live EXCEPT !.batch.pc = "run",
                                    !.batch.stepDue = WalletAnalysisTimeout,
                                    !.batch.due = batchTimeout],
                       live.batch.i + 1,
                       Min(live.batch.i + batchSize, Len(live.batch.wallets)))
     ELSE AutoResolved([live EXCEPT !.batch.pc = "done", !.batch.stepDue = NoTimer,
                                    !.batch.due = NoTimer],
                       AutoResult(SelectSeq(live.batch.all, IsInsiderWallet),
                                  Len(live.batch.wallets)))

ProcessBatchLoopUnfiltered(s) ==
  IF s.batch.i < Len(s.batch.wallets)
  THEN StartWallets([s EXCEPT !.batch.pc = "run",
                              !.batch.stepDue = WalletAnalysisTimeout,
                              !.batch.due = batchTimeout],
                    s.batch.i + 1, Min(s.batch.i + batchSize, Len(s.batch.wallets)))
  ELSE AutoResolved([s EXCEPT !.batch.pc = "done", !.batch.stepDue = NoTimer,
                              !.batch.due = NoTimer],
                    AutoResult(s.batch.all, Len(s.batch.wallets)))

\* lines 923-954: the head of the loop over the batches; after the last batch
\* the insiders among all results are returned to the handler (lines 237-258)
ProcessBatchLoop(s) ==
  IF s.batch.i < Len(s.batch.wallets)
  THEN StartWallets([s EXCEPT !.batch.pc = "run",
                              !.batch.stepDue = WalletAnalysisTimeout,
                              !.batch.due = batchTimeout],
                    s.batch.i + 1, Min(s.batch.i + batchSize, Len(s.batch.wallets)))
  ELSE AutoResolved([s EXCEPT !.batch.pc = "done", !.batch.stepDue = NoTimer,
                              !.batch.due = NoTimer],
                    AutoResult(SelectSeq(s.batch.all, IsInsiderWallet),
                               Len(s.batch.wallets)))

\* lines 936-951: Promise.all of the batch won the race against the 20 s timer
BatchDone(s) ==
  LET last == Min(s.batch.i + batchSize, Len(s.batch.wallets))
      s1 == [s EXCEPT !.batch.all = @ \o ValidResults(s.batch.val, s.batch.i + 1, last),
                      !.batch.due = NoTimer]
  IN IF s.batch.i + batchSize < Len(s.batch.wallets)
     THEN [s1 EXCEPT !.batch.pc = "delay", !.batch.stepDue = BatchDelay]
     ELSE ProcessBatchLoop([s1 EXCEPT !.batch.i = @ + batchSize,
                                      !.batch.stepDue = NoTimer])

\* a wallet of the batch settled: line 991, Promise.all resolves with the last
BatchItemSettled(s) ==
  IF s.batch.pc = "run" /\ BatchSlots(s.batch) \subseteq s.batch.settled
  THEN BatchDone(s)
  ELSE s

ItemAnalysedKeepsDerived(s, k, value) ==
  IF k \in s.batch.settled THEN s
  ELSE BatchItemSettled([s EXCEPT !.batch.settled = @ \cup {k},
                                  !.batch.val[k] = value])

\* lines 963-984: the analysis of slot k returned value before the 10 s timer;
\* the funding fields of the analysis are replaced by the candidate's
ItemAnalysed(s, k, value) ==
  IF k \in s.batch.settled THEN s
  ELSE
    LET walletInfo == s.batch.wallets[k]
        analysis == IF value = NoResult THEN NoResult
                    ELSE [value EXCEPT !.fundingSource = walletInfo.fundingSource,
                                       !.fundingAmount = walletInfo.fundingAmount,
                                       !.amountIsString = FALSE]
    IN BatchItemSettled([s EXCEPT !.batch.settled = @ \cup {k},
                                  !.batch.val[k] = analysis])

(***************************************************************************)
(* discoverFreshWallets (lines 781-804), discoverWalletsInternal (806-914) *)
(***************************************************************************)
IdleDisc ==
  [pc |-> "idle", seed |-> 0, nsigs |-> 0, i |-> 0, items |-> <<>>, late |-> FALSE,
   found |-> <<>>, maxWallets |-> 0, stepDue |-> NoTimer, chunkDue |-> NoTimer,
   due |-> NoTimer, returned |-> FALSE, snapshot |-> <<>>]

\* n calls into the gateway on behalf of address a are issued
RECURSIVE CallN(_, _, _)
CallN(s, a, n) == IF n = 0 THEN s ELSE CallN(Call(s, a), a, n - 1)

RECURSIVE AddTransfersNoCeiling(_, _, _, _, _, _)
AddTransfersNoCeiling(discoveredWallets, tx, n, insiderWallet, sig, maxWallets) ==
  IF n > Len(tx.instrs) THEN discoveredWallets
  ELSE
    LET instruction == tx.instrs[n]
        preBalance == IF Len(tx.pre) >= 2 THEN tx.pre[2] ELSE 0
        postBalance == IF Len(tx.post) >= 2 THEN tx.post[2] ELSE 0
        transferAmount == postBalance - preBalance
        added == Append(discoveredWallets,
                        [address |-> instruction.accounts[2],
                         fundingSource |-> insiderWallet,
                         fundingAmount |-> transferAmount,
                         discoveredFrom |-> sig])
    IN IF instruction.programId # SystemProgram \/ Len(instruction.accounts) < 2
       THEN AddTransfersNoCeiling(discoveredWallets, tx, n + 1, insiderWallet, sig,
                                  maxWallets)
       ELSE IF transferAmount >= MinFunding
       THEN IF Len(added) >= maxWallets THEN added
            ELSE AddTransfersNoCeiling(added, tx, n + 1, insiderWallet, sig, maxWallets)
       ELSE AddTransfersNoCeiling(discoveredWallets, tx, n + 1, insiderWallet, sig,
                                  maxWallets)

\* lines 848-883: the loop over the instructions of one fetched transaction,
\* from instruction n on.  discoveredWallets is a Set of object literals: every
\* add inserts a new member, so the Set is kept as the list of its insertions.
RECURSIVE AddTransfers(_, _, _, _, _, _)
AddTransfers(discoveredWallets, tx, n, insiderWallet, sig, maxWallets) ==
  IF n > Len(tx.instrs) THEN discoveredWallets
  ELSE
    LET instruction == tx.instrs[n]
        preBalance == IF Len(tx.pre) >= 2 THEN tx.pre[2] ELSE 0
        postBalance == IF Len(tx.post) >= 2 THEN tx.post[2] ELSE 0
        transferAmount == postBalance - preBalance
        added == Append(discoveredWallets,
                        [address |-> instruction.accounts[2],
                         fundingSource |-> insiderWallet,
                         fundingAmount |-> transferAmount,
                         discoveredFrom |-> sig])
    IN IF instruction.programId # SystemProgram \/ Len(instruction.accounts) < 2
       THEN AddTransfers(discoveredWallets, tx, n + 1, insiderWallet, sig, maxWallets)
       ELSE IF transferAmount >= MinFunding /\ transferAmount <= MaxFunding
       THEN IF Len(added) >= maxWallets THEN added
            ELSE AddTransfers(added, tx, n + 1, insiderWallet, sig, maxWallets)
       ELSE AddTransfers(discoveredWallets, tx, n + 1, insiderWallet, sig, maxWallets)

DiscSettledEmpty(s) ==
  IF s.disc.returned THEN s
  ELSE AutoResolved([s EXCEPT !.disc.returned = TRUE, !.disc.due = NoTimer],
                    AutoResult(<<>>, 0))

\* lines 793-804 and 217-237: the race of discoverFreshWallets settles; the
\* candidates found so far are returned and the handler goes on with them
DiscSettled(s) ==
  IF s.disc.returned THEN s
  ELSE
    LET freshWallets == s.disc.found
        s1 == [s EXCEPT !.disc.returned = TRUE, !.disc.due = NoTimer,
                        !.disc.snapshot = freshWallets]
    IN IF Len(freshWallets) = 0
       THEN AutoResolved(s1, AutoResult(<<>>, 0))
       ELSE ProcessBatchLoop([s1 EXCEPT !.batch.wallets = freshWallets])

\* lines 807-822: the head of the loop over the seeds
DiscSeedLoop(s) ==
  IF s.disc.seed < Len(insiderFundingWallets)
  THEN Call([s EXCEPT !.disc.seed = @ + 1, !.disc.pc = "sigs", !.disc.late = FALSE,
                      !.disc.items = <<>>, !.disc.nsigs = 0, !.disc.i = 0,
                      !.disc.stepDue = SignaturesTimeout, !.disc.chunkDue = NoTimer],
            insiderFundingWallets[s.disc.seed + 1])
  ELSE DiscSettled([s EXCEPT !.disc.pc = "done", !.disc.items = <<>>,
                             !.disc.stepDue = NoTimer, !.disc.chunkDue = NoTimer])

DiscChunkLoopShortDeadline(s) ==
  IF s.disc.i < s.disc.nsigs /\ Len(s.disc.found) < s.disc.maxWallets
  THEN LET n == Min(chunkSize, s.disc.nsigs - s.disc.i)
       IN CallN([s EXCEPT !.disc.pc = "chunk",
                          !.disc.items = [j \in 1..n |-> "pending"],
                          !.disc.stepDue = TxFetchTimeout,
                          !.disc.chunkDue = TxFetchTimeout],
                insiderFundingWallets[s.disc.seed], n)
  ELSE DiscSeedLoop(s)

\* lines 828-902: the head of the loop over the chunks of one seed
DiscChunkLoop(s) ==
  IF s.disc.i < s.disc.nsigs /\ Len(s.disc.found) < s.disc.maxWallets
  THEN LET n == Min(chunkSize, s.disc.nsigs - s.disc.i)
       IN CallN([s EXCEPT !.disc.pc = "chunk",
                          !.disc.items = [j \in 1..n |-> "pending"],
                          !.disc.stepDue = TxFetchTimeout,
                          !.disc.chunkDue = ChunkTimeout],
                insiderFundingWallets[s.disc.seed], n)
  ELSE DiscSeedLoop(s)

\* lines 897-908: Promise.all of the chunk won the race against the 15 s timer
ChunkDone(s) ==
  IF s.disc.i + chunkSize < s.disc.nsigs
  THEN [s EXCEPT !.disc.pc = "delay", !.disc.items = <<>>,
                 !.disc.stepDue = ChunkDelay, !.disc.chunkDue = NoTimer]
  ELSE DiscChunkLoop([s EXCEPT !.disc.i = @ + chunkSize, !.disc.items = <<>>,
                               !.disc.stepDue = NoTimer, !.disc.chunkDue = NoTimer])

\* an item of the chunk settled
DiscItemSettled(s) ==
  IF \A j \in 1..Len(s.disc.items) : s.disc.items[j] = "done"
  THEN ChunkDone(s)
  ELSE s

(***************************************************************************)
(* analyzeWalletForInsiderPatterns: the steps between its awaits           *)
(***************************************************************************)
\* the activation in slot k returns value (NoResult for null) to its caller
AnFinish(s, k, value) ==
  LET s1 == [s EXCEPT !.an[k].pc = "done", !.an[k].res = value,
                      !.an[k].due = NoTimer, !.an[k].late = FALSE]
      ctx == s.an[k].ctx
  IN CASE ctx = "specific" ->
            ScanResolved(s1, IF value # NoResult THEN <<value>> ELSE <<>>)
       [] ctx = "batch" -> BatchAnalysed(s1, value)
       [] ctx = "recent" -> RecentAnalysed(s1, value)
       [] ctx = "disc" -> ItemAnalysed(s1, k, value)
       [] OTHER -> s1

\* lines 608-699: the end of one iteration; bt is signatures[i].blockTime
AnNextTx(s, k, bt) ==
  LET t == [s.an[k] EXCEPT !.i = @ + 1, !.bt = bt]
  IN IF t.i < Min(t.nsigs, MaxTransactions)
     THEN Call([s EXCEPT !.an[k] = [t EXCEPT !.due = TransactionTimeout,
                                             !.late = FALSE]],
               t.addr)
     ELSE AnFinish([s EXCEPT !.an[k] = t], k, WalletData(t))

\* lines 520-533: getAccountInfo returned a value
AnAccount(s, k, found) ==
  LET a == s.an[k].addr
  IN IF ~found THEN AnFinish(Answered(s, a), k, NoResult)
     ELSE Call([Answered(s, a) EXCEPT !.an[k].pc = "sigs",
                                      !.an[k].lamports = Lamports(a),
                                      !.an[k].due = NoTimer,
                                      !.an[k].late = FALSE], a)

\* lines 524-533 and 603-608: getSignaturesForAddress returned n signatures
AnSignatures(s, k, n) ==
  LET a == s.an[k].addr
      t == [s.an[k] EXCEPT !.nsigs = n, !.i = 0, !.late = FALSE]
  IN IF Min(n, MaxTransactions) > 0
     THEN Call([Answered(s, a) EXCEPT
                  !.an[k] = [t EXCEPT !.pc = "tx", !.due = TransactionTimeout]],
               a)
     ELSE AnFinish([Answered(s, a) EXCEPT !.an[k] = t], k, WalletData(t))

(***************************************************************************)
(* State of the program as a record, and its assignment                    *)
(***************************************************************************)
Cur ==
  [an |-> an, scan |-> scan, results |-> results, resp |-> resp,
   respCount |-> respCount, overall |-> overall, disc |-> disc, batch |-> batch,
   gwCalls |-> gwCalls, gwLog |-> gwLog, cut |-> cut, faults |-> faults,
   gwDown |-> gwDown]

Apply(s) ==
  /\ an' = s.an /\ scan' = s.scan /\ results' = s.results /\ resp' = s.resp
  /\ respCount' = s.respCount /\ overall' = s.overall /\ disc' = s.disc
  /\ batch' = s.batch /\ gwCalls' = s.gwCalls /\ gwLog' = s.gwLog /\ cut' = s.cut
  /\ faults' = s.faults /\ gwDown' = s.gwDown
  /\ UNCHANGED <<scope, req, window>>

(***************************************************************************)
(* Actions of a wallet analysis                                            *)
(***************************************************************************)
\* getAccountInfo settles before its 1 s timer: a record, null, or an error
AccountInfoReturns(k) ==
  /\ an[k].pc = "acct"
  /\ LET late == an[k].late
         s == Overtake(Cur, AnPos(k), late)
     IN \/ /\ MayAnswer(Cur, AnPos(k), late)
           /\ Apply(AnAccount(s, k, TRUE))
        \/ /\ MayFail(Cur, AnPos(k), late)
           /\ \/ Apply(AnAccount(Failed(s, late), k, FALSE))
              \/ Apply(AnFinish(Failed(s, late), k, NoResult))

\* timers of one duration that are due together fire in the order they were
\* armed in, which is the order of the slots
FirstDue(k) == an[k].due = 0 /\ \A j \in Slots : j < k => an[j].due # 0

\* lines 513-518 and 552-555: the 1 s timer wins the race
AccountInfoTimesOut(k) ==
  /\ an[k].pc = "acct"
  /\ FirstDue(k)
  /\ Apply(AnFinish(Cut(Cur, "accountInfo"), k, NoResult))

\* getSignaturesForAddress (no timer) settles: a list, or an error
SignaturesReturn(k) ==
  /\ an[k].pc = "sigs"
  /\ LET late == an[k].late
         s == Overtake(Cur, AnPos(k), late)
     IN \/ /\ MayAnswer(Cur, AnPos(k), late)
           /\ \E n \in SigCounts(an[k].addr, an[k].depth) : Apply(AnSignatures(s, k, n))
        \/ /\ MayFail(Cur, AnPos(k), late)
           /\ Apply(AnFinish(Failed(s, late), k, NoResult))

TransactionReturnsNullThrows(k) ==
  /\ an[k].pc = "tx"
  /\ LET late == an[k].late
         s == Overtake(Cur, AnPos(k), late)
     IN \E bt \in BtChoices(an[k].addr, an[k].i) :
          \/ /\ MayAnswer(Cur, AnPos(k), late)
             /\ \E tx \in TxChoices(an[k].addr, an[k].i) :
                  Apply(AnNextTx([Fetched(Answered(s, an[k].addr), k, tx) EXCEPT
                                    !.an[k] = ProcessTx(s.an[k], tx, bt)], k, bt))
          \/ /\ MayFail(Cur, AnPos(k), late)
             /\ \/ Apply(AnFinish(Answered(Failed(s, late), an[k].addr), k, NoResult))
                \/ Apply(AnNextTx(Failed(s, late), k, bt))

\* getTransaction settles before its 1 s timer: a record, null, or an error
TransactionReturns(k) ==
  /\ an[k].pc = "tx"
  /\ LET late == an[k].late
         s == Overtake(Cur, AnPos(k), late)
     IN \E bt \in BtChoices(an[k].addr, an[k].i) :
          \/ /\ MayAnswer(Cur, AnPos(k), late)
             /\ \E tx \in TxChoices(an[k].addr, an[k].i) :
                  Apply(AnNextTx([Fetched(Answered(s, an[k].addr), k, tx) EXCEPT
                                    !.an[k] = ProcessTx(s.an[k], tx, bt)], k, bt))
          \/ /\ MayFail(Cur, AnPos(k), late)
             /\ \/ Apply(AnNextTx(Answered(Failed(s, late), an[k].addr), k, bt))
                \/ Apply(AnNextTx(Failed(s, late), k, bt))

TransactionTimesOutKeepsTime(k) ==
  /\ an[k].pc = "tx"
  /\ FirstDue(k)
  /\ Apply(AnNextTx(Cut(Cur, "transaction"), k, an[k].bt))

TransactionTimesOutAborts(k) ==
  /\ an[k].pc = "tx"
  /\ FirstDue(k)
  /\ Apply(AnFinish(Cut(Cur, "transaction"), k, NoResult))

\* lines 616-621 and 695-698: the 1 s timer wins the race
TransactionTimesOut(k) ==
  /\ an[k].pc = "tx"
  /\ FirstDue(k)
  /\ \E bt \in BtChoices(an[k].addr, an[k].i) :
       Apply(AnNextTx(Cut(Cur, "transaction"), k, bt))

(***************************************************************************)
(* Time                                                                    *)
(***************************************************************************)
\* the due times of the timers that can still change the course of the program
Timers ==
  ({an[k].due : k \in Slots}
     \cup {scan.due, overall.due, disc.stepDue, disc.chunkDue, disc.due,
           batch.stepDue, batch.due}) \ {NoTimer}

MinOf(S) == CHOOSE x \in S : \A y \in S : x <= y

\* time passes until the next timer is due; a due timer fires before more
\* time passes, a gateway call in flight may answer at any moment
Elapse(due, m) == IF due = NoTimer THEN NoTimer ELSE due - m

\* the gateway calls in flight; the calls of a request that fail to answer at
\* once are counted (not those of the single classification of scope "deep")
AnInFlight(t) == scope # "deep" /\ InFlight(t)
ScanInFlight(c) == c.pc \in {"sigs", "tx"}
NewlyLate ==
  Cardinality({k \in Slots : AnInFlight(an[k]) /\ ~an[k].late})
  + (IF ScanInFlight(scan) /\ ~scan.late THEN 1 ELSE 0)
  + (IF disc.pc = "sigs" /\ ~disc.late THEN 1 ELSE 0)
  + Cardinality({j \in 1..Len(disc.items) : disc.items[j] = "pending"})

Tick ==
  /\ Timers # {}
  /\ \A d \in Timers : d > 0
  /\ gwDown \/ faults + NewlyLate <= MaxFaults
  /\ faults' = IF gwDown THEN faults ELSE faults + NewlyLate
  /\ LET m == MinOf(Timers)
     IN /\ an' = [k \in Slots |->
                    [an[k] EXCEPT !.due = Elapse(@, m),
                                  !.late = @ \/ (~gwDown /\ AnInFlight(an[k]))]]
        /\ scan' = [scan EXCEPT !.due = Elapse(@, m),
                                !.late = @ \/ (~gwDown /\ ScanInFlight(scan))]
        /\ overall' = [overall EXCEPT !.due = Elapse(@, m)]
        /\ disc' = [disc EXCEPT
                      !.stepDue = Elapse(@, m), !.chunkDue = Elapse(@, m),
                      !.due = Elapse(@, m),
                      !.late = @ \/ (~gwDown /\ disc.pc = "sigs"),
                      !.items = [j \in 1..Len(@) |->
                                   IF ~gwDown /\ @[j] = "pending" THEN "late" ELSE @[j]]]
        /\ batch' = [batch EXCEPT !.stepDue = Elapse(@, m), !.due = Elapse(@, m)]
  /\ UNCHANGED <<scope, req, resp, respCount, results, gwCalls, gwLog, cut, gwDown,
                 window>>

\* the gateway stops answering: the calls in flight and all later calls hang
GatewayStalls ==
  /\ scope # "deep"
  /\ ~gwDown
  /\ faults < MaxFaults
  /\ \/ \E k \in Slots : InFlight(an[k])
     \/ ScanInFlight(scan)
     \/ disc.pc \in {"sigs", "chunk"}
  /\ gwDown' = TRUE
  /\ faults' = faults + 1
  /\ UNCHANGED <<scope, req, resp, respCount, overall, results, scan, an, disc,
                 batch, gwCalls, gwLog, cut, window>>

(***************************************************************************)
(* Specification of one classification: analyzeWalletForInsiderPatterns is *)
(* called once, the gateway answers freely from TxUniverse and BlockTimes  *)
(***************************************************************************)
NoRequest ==
  [body |-> "none", special |-> "none", scanType |-> Null, walletAddress |-> Null,
   batchWallets |-> <<>>, hasDepth |-> FALSE, scanDepth |-> 0,
   autoDiscoveryMode |-> FALSE, hasMax |-> FALSE, maxWalletsToDiscover |-> 0]

IdleScan ==
  [mode |-> "none", pc |-> "idle", wallets |-> <<>>, depth |-> 0, idx |-> 0,
   res |-> <<>>, due |-> NoTimer, late |-> FALSE, nsigs |-> 0, i |-> 0,
   funded |-> <<>>]

Blank ==
  [an |-> [k \in Slots |-> IdleTask], scan |-> IdleScan, results |-> <<>>,
   resp |-> NoResp, respCount |-> 0,
   overall |-> [started |-> FALSE, due |-> NoTimer, settled |-> FALSE,
                fired |-> FALSE],
   disc |-> IdleDisc, batch |-> IdleBatch,
   gwCalls |-> 0, gwLog |-> [called |-> {}, ok |-> {}, records |-> [k \in Slots |-> 0]], cut |-> {}, faults |-> 0,
   gwDown |-> FALSE]

Start(s) ==
  /\ an = s.an /\ scan = s.scan /\ results = s.results /\ resp = s.resp
  /\ respCount = s.respCount /\ overall = s.overall /\ disc = s.disc
  /\ batch = s.batch /\ gwCalls = s.gwCalls /\ gwLog = s.gwLog /\ cut = s.cut
  /\ faults = s.faults /\ gwDown = s.gwDown

InitClassify ==
  /\ scope = "deep"
  /\ req = NoRequest
  /\ window = << >>
  /\ Start(StartAnalysis(Blank, 1, "W", DefaultScanDepth, "classify"))

NextClassify ==
  \/ AccountInfoReturns(1)
  \/ AccountInfoTimesOut(1)
  \/ SignaturesReturn(1)
  \/ TransactionReturns(1)
  \/ TransactionTimesOut(1)
  \/ Tick

SpecClassify == InitClassify /\ [][NextClassify]_vars

(***************************************************************************)
(* Specification of checkInsiderCriteria over a given history: the window  *)
(* of the subject "W" is fixed at the start, newest first as               *)
(* getSignaturesForAddress lists it, and every call is answered from it    *)
(***************************************************************************)
\* a record in which the subject is not the first account: a third account
\* at index 0 receives 1 SOL from nothing, the subject's balance stays
Bystander ==
  MkTx(<<"X", Binance2, "W">>, <<0, 10 * Sol, Sol>>, <<Sol, 9 * Sol, Sol>>)

\* the records of a window: two fundings in band that differ in seed and
\* amount, a funding of a wallet that held 1 SOL before, a funding of 3 SOL,
\* a gain of exactly 0.1 SOL and one just above, a loss, a record without
\* meta, and Bystander
WindowRecords ==
  { Fund(Binance2, 0, Sol), Fund(Changenow, 0, 2 * Sol),
    Fund(Binance2, Sol, Sol), Fund(Changenow, 0, 3 * Sol),
    Trade(Sol, GoodPlayProfit), Trade(Sol, GoodPlayProfit + 1), Trade(Sol, -Sol),
    NoMeta, Bystander }

\* signatures[i].blockTime in seconds, 0 when the entry has none: the values
\* are 60, 61, 300 and 301 seconds apart
WindowTimes == {0, 1639, 1939, 1940, 2000}

WindowEntries == [tx : WindowRecords, bt : WindowTimes]

\* getSignaturesForAddress lists the newest signature first
NewestFirst(w) ==
  \A a \in 1..Len(w) : \A b \in 1..Len(w) :
    (a < b /\ w[a].bt # 0 /\ w[b].bt # 0) => w[a].bt >= w[b].bt

Windows ==
  {w \in UNION {[1..n -> WindowEntries] : n \in 0..MaxWindow} : NewestFirst(w)}

InitWindow ==
  /\ scope = "window"
  /\ req = NoRequest
  /\ window \in Windows
  /\ Start(StartAnalysis(Blank, 1, "W", DefaultScanDepth, "classify"))

NextWindow ==
  \/ AccountInfoReturns(1)
  \/ SignaturesReturn(1)
  \/ TransactionReturns(1)

SpecWindow == InitWindow /\ [][NextWindow]_vars

(***************************************************************************)
(* handler (lines 17-337)                                                  *)
(***************************************************************************)
\* line 204: Math.min(scanDepth || 100, 50), scanDepth defaulting to 50
limitedScanDepth(r) ==
  LET given == IF r.hasDepth THEN r.scanDepth ELSE DefaultScanDepth
  IN Min(IF given = 0 THEN FallbackScanDepth ELSE given, MaxScanDepth)

\* lines 82-91
BodyMissing ==
  [kind |-> "rejected", success |-> FALSE, hasData |-> FALSE, data |-> <<>>,
   error |-> "Request body is missing",
   message |-> "Please ensure Content-Type is application/json and body is valid JSON"]

\* lines 69-78
InvalidJson ==
  [kind |-> "rejected", success |-> FALSE, hasData |-> FALSE, data |-> <<>>,
   error |-> "Invalid JSON in request body",
   message |-> "Request body must be valid JSON"]

\* lines 97-201: the canned answers of the three test switches
Canned(which) ==
  [kind |-> "canned", success |-> TRUE, hasData |-> which # "healthCheck",
   data |-> <<>>, error |-> Null, message |-> which]

\* lines 284-295: the scan function the request is dispatched to, run up to
\* its first await
Dispatch(s, r) ==
  LET depth == limitedScanDepth(r)
  IN IF r.scanType = "specific" /\ r.walletAddress # Null
     THEN StartAnalysis([s EXCEPT !.scan.mode = "specific", !.scan.pc = "analyzing",
                                  !.scan.depth = depth],
                        1, r.walletAddress, depth, "specific")
     ELSE IF r.scanType = "batch" /\ Len(r.batchWallets) > 0
     THEN BatchLoop([s EXCEPT !.scan.mode = "batch", !.scan.wallets = r.batchWallets,
                              !.scan.depth = depth])
     ELSE Call([s EXCEPT !.scan.mode = "recent", !.scan.pc = "sigs",
                         !.scan.depth = depth], Binance2)

\* lines 94 and 210-217: auto-discovery is entered; discoverFreshWallets runs
\* up to its first await
StartDiscovery(s, r) ==
  DiscSeedLoop([s EXCEPT
                  !.disc = [IdleDisc EXCEPT
                              !.maxWallets = IF r.hasMax THEN r.maxWalletsToDiscover
                                             ELSE DefaultMaxWallets,
                              !.due = discoveryTimeout],
                  !.batch.depth = limitedScanDepth(r)])

HandleRequestNoTimer(s, r) ==
  IF r.body = "invalid" THEN SendJson(s, InvalidJson)
  ELSE IF r.body = "missing" THEN SendJson(s, BodyMissing)
  ELSE IF r.special # "none" THEN SendJson(s, Canned(r.special))
  ELSE IF r.autoDiscoveryMode THEN StartDiscovery(s, r)
  ELSE Dispatch(s, r)

\* lines 58-303: the handler from the arrival of the request to its first await
HandleRequest(s, r) ==
  IF r.body = "invalid" THEN SendJson(s, InvalidJson)
  ELSE IF r.body = "missing" THEN SendJson(s, BodyMissing)
  ELSE IF r.special # "none" THEN SendJson(s, Canned(r.special))
  ELSE IF r.autoDiscoveryMode
  THEN StartDiscovery([s EXCEPT !.overall.due = AutoDiscoveryTimeout], r)
  ELSE Dispatch([s EXCEPT !.overall.due = OverallTimeout], r)

Handle ==
  /\ scope \in {"scan", "request"}
  /\ ~overall.started
  /\ Apply(HandleRequest([Cur EXCEPT !.overall.started = TRUE], req))

\* lines 298-303 and 313-335: the overall timer fires; when the race is still
\* open the handler's catch block answers
OverallTimerFires ==
  /\ overall.due = 0
  /\ Apply(LET s == [Cur EXCEPT !.overall.due = NoTimer, !.overall.fired = TRUE]
           IN IF s.overall.settled THEN s
              ELSE SendJson([s EXCEPT !.overall.settled = TRUE],
                            IF req.autoDiscoveryMode THEN AutoTimedOut
                            ELSE ScanTimedOut))

(***************************************************************************)
(* Actions of the direct scan modes                                        *)
(***************************************************************************)
\* line 495: the 200 ms pause of scanBatchWallets ends
BatchDelayEnds ==
  /\ scan.mode = "batch" /\ scan.pc = "delay"
  /\ scan.due = 0
  /\ Apply(BatchLoop(Cur))

\* lines 360-365 and 415-417: getSignaturesForAddress of the funding wallet
\* settles (no timer): a list, or an error
RecentSignaturesReturn ==
  /\ scan.mode = "recent" /\ scan.pc = "sigs"
  /\ \/ /\ MayAnswer(Cur, 0, scan.late)
        /\ Apply(RecentTxLoop([Answered(Cur, Binance2) EXCEPT
                                 !.scan.nsigs = SeedSigCount(Binance2, RecentSigLimit),
                                 !.scan.i = 0]))
     \/ /\ MayFail(Cur, 0, scan.late)
        /\ Apply(ScanResolved(Failed(Cur, scan.late), scan.res))

\* lines 373-404: getTransaction settles before its 2 s timer
RecentTransactionReturns ==
  /\ scan.mode = "recent" /\ scan.pc = "tx"
  /\ \/ /\ MayAnswer(Cur, 0, scan.late)
        /\ Apply(RecentFundedLoop(
                  [Answered(Cur, Binance2) EXCEPT
                     !.scan.funded = findFundedWallets(SeedLedger(Binance2)[scan.i + 1],
                                                       Binance2)]))
     \/ /\ MayFail(Cur, 0, scan.late)
        /\ \/ Apply(RecentTxLoop([Answered(Failed(Cur, scan.late), Binance2)
                                    EXCEPT !.scan.i = @ + 1]))
           \/ Apply(RecentTxLoop([Failed(Cur, scan.late) EXCEPT !.scan.i = @ + 1]))

\* lines 377-382 and 409-412: the 2 s timer wins the race
RecentTransactionTimesOut ==
  /\ scan.mode = "recent" /\ scan.pc = "tx"
  /\ scan.due = 0
  /\ Apply(RecentTxLoop([Cut(Cur, "recentTransaction") EXCEPT !.scan.i = @ + 1]))

(***************************************************************************)
(* Specification of a direct scan request (specific, batch, recent)        *)
(***************************************************************************)
\* the lists of distinct elements of S of length at most n
RECURSIVE SeqsUpTo(_, _)
SeqsUpTo(S, n) ==
  IF n = 0 THEN {<<>>}
  ELSE LET shorter == SeqsUpTo(S, n - 1)
       IN shorter \cup UNION {{Append(q, x) : x \in {y \in S : \A j \in 1..Len(q) : q[j] # y}} :
                               q \in shorter}

\* values of scanDepth other than a small one: zero and one beyond every cap
ScanDepths == {0, 1000}

ScanRequests ==
  {[NoRequest EXCEPT !.body = b] : b \in {"missing", "invalid"}}
  \cup {[NoRequest EXCEPT !.body = "ok", !.special = sp] :
          sp \in {"ultraFastTest", "healthCheck", "autoDiscoveryTest"}}
  \cup {[NoRequest EXCEPT !.body = "ok", !.scanType = "specific",
                          !.walletAddress = w, !.hasDepth = hd, !.scanDepth = 3] :
          w \in Wallets \cup {Null}, hd \in BOOLEAN}
  \cup {[NoRequest EXCEPT !.body = "ok", !.scanType = "specific",
                          !.walletAddress = w, !.hasDepth = TRUE, !.scanDepth = d] :
          w \in {"W1"}, d \in ScanDepths}
  \cup {[NoRequest EXCEPT !.body = "ok", !.scanType = "batch", !.batchWallets = q] :
          q \in SeqsUpTo(Wallets, MaxBatch)}
  \cup {[NoRequest EXCEPT !.body = "ok", !.scanType = "recent"]}

InitScan ==
  /\ scope = "scan"
  /\ req \in ScanRequests
  /\ window = << >>
  /\ Start(Blank)

NextScan ==
  \/ Handle
  \/ OverallTimerFires
  \/ AccountInfoReturns(1)
  \/ AccountInfoTimesOut(1)
  \/ SignaturesReturn(1)
  \/ TransactionReturns(1)
  \/ TransactionTimesOut(1)
  \/ BatchDelayEnds
  \/ RecentSignaturesReturn
  \/ RecentTransactionReturns
  \/ RecentTransactionTimesOut
  \/ GatewayStalls
  \/ Tick

SpecScan == InitScan /\ [][NextScan]_vars

(***************************************************************************)
(* Actions of auto-discovery                                               *)
(***************************************************************************)
\* lines 812-822 and 910-912: getSignaturesForAddress of the seed settles
\* before its 10 s timer: a list, or an error
DiscSignaturesReturn ==
  /\ disc.pc = "sigs"
  /\ LET seed == insiderFundingWallets[disc.seed]
     IN \/ /\ MayAnswer(Cur, 0, disc.late)
           /\ Apply(DiscChunkLoop([Answered(Cur, seed) EXCEPT
                                     !.disc.nsigs = SeedSigCount(seed, DiscoverySigLimit),
                                     !.disc.i = 0, !.disc.stepDue = NoTimer]))
        \/ /\ MayFail(Cur, 0, disc.late)
           /\ Apply(DiscSeedLoop(Failed(Cur, disc.late)))

\* lines 817-822 and 910-912: the 10 s timer wins the race
DiscSignaturesTimeOut ==
  /\ disc.pc = "sigs"
  /\ disc.stepDue = 0
  /\ Apply(DiscSeedLoop(Cut(Cur, "signatures")))

\* lines 835-893: getTransaction of item j of the chunk settles before its
\* 5 s timer: a record, null, or an error
DiscItemReturns ==
  /\ disc.pc = "chunk"
  /\ \E j \in 1..Len(disc.items) :
       /\ disc.items[j] # "done"
       /\ LET late == disc.items[j] = "late"
              seed == insiderFundingWallets[disc.seed]
              s == [Overtake(Cur, j, late) EXCEPT !.disc.items[j] = "done"]
          IN \/ /\ MayAnswer(Cur, j, late)
                /\ Apply(DiscItemSettled(
                          [Answered(s, seed) EXCEPT
                             !.disc.found =
                                AddTransfers(@, SeedLedger(seed)[disc.i + j], 1, seed,
                                             <<seed, disc.i + j>>, disc.maxWallets)]))
             \/ /\ MayFail(Cur, j, late)
                /\ Apply(DiscItemSettled(Failed(s, late)))

\* the timers of the discovery races other than the signatures timer: the
\* 5 s timers of the items still in flight (lines 839-844, 891-893), armed
\* together, and the 15 s timer of the chunk (lines 897-902, 910-912)
DiscTimedOut(s, timer) ==
  IF timer = "item"
  THEN ChunkDone(Cut([s EXCEPT !.disc.items = [j \in 1..Len(@) |-> "done"]],
                     "transactionFetch"))
  ELSE DiscSeedLoop(Cut(s, "chunk"))

DiscTimerFires ==
  /\ disc.pc = "chunk"
  /\ \E timer \in {"item", "chunk"} :
       /\ IF timer = "item" THEN disc.stepDue = 0 ELSE disc.chunkDue = 0
       /\ Apply(DiscTimedOut(Cur, timer))

\* lines 905-907: the 100 ms pause between two chunks ends
DiscDelayEnds ==
  /\ disc.pc = "delay"
  /\ disc.stepDue = 0
  /\ Apply(DiscChunkLoop([Cur EXCEPT !.disc.i = @ + chunkSize,
                                     !.disc.stepDue = NoTimer]))

\* lines 793-802: the 30 s timer wins the race of discoverFreshWallets
DiscoveryTimerFires ==
  /\ disc.due = 0
  /\ Apply(DiscSettled(Cut(Cur, "discovery")))

\* the timers of processWalletBatch: the 10 s timers of the wallets of the
\* batch not yet settled (lines 963-968, 985-988), armed together, and the
\* 20 s timer of the batch (lines 929-934, 943-946)
BatchTimedOut(s, timer) ==
  IF timer = "wallet"
  THEN BatchDone(Cut([s EXCEPT !.batch.settled = @ \cup BatchSlots(s.batch)],
                     "walletAnalysis"))
  ELSE LET s1 == Cut([s EXCEPT !.batch.due = NoTimer], "batch")
       IN IF s.batch.i + batchSize < Len(s.batch.wallets)
          THEN [s1 EXCEPT !.batch.pc = "delay", !.batch.stepDue = BatchDelay]
          ELSE ProcessBatchLoop([s1 EXCEPT !.batch.i = @ + batchSize,
                                           !.batch.stepDue = NoTimer])

BatchTimerFires ==
  /\ batch.pc = "run"
  /\ \E timer \in {"wallet", "batch"} :
       /\ IF timer = "wallet" THEN batch.stepDue = 0 ELSE batch.due = 0
       /\ Apply(BatchTimedOut(Cur, timer))

\* lines 948-951: the 100 ms pause between two batches ends
ProcessBatchDelayEnds ==
  /\ batch.pc = "delay"
  /\ batch.stepDue = 0
  /\ Apply(ProcessBatchLoop([Cur EXCEPT !.batch.i = @ + batchSize,
                                        !.batch.stepDue = NoTimer]))

\* the gateway answers again.  An outage that ends is followed where its end
\* matters: a fetch of the discovery was left in flight (lines 811-813,
\* 835-837) when the 30 s timer returned the candidates (lines 793-804)
GatewayRecovers ==
  /\ scope = "request"
  /\ gwDown
  /\ disc.returned
  /\ disc.pc \in {"sigs", "chunk"}
  /\ gwDown' = FALSE
  /\ UNCHANGED <<scope, req, resp, respCount, overall, results, scan, an, disc,
                 batch, gwCalls, gwLog, cut, faults, window>>

(***************************************************************************)
(* Specification of any request: the direct scans and auto-discovery       *)
(***************************************************************************)
DiscoveryRequests ==
  {[NoRequest EXCEPT !.body = "ok", !.autoDiscoveryMode = TRUE, !.hasMax = hm,
                     !.maxWalletsToDiscover = 1] : hm \in BOOLEAN}

InitRequest ==
  /\ scope = "request"
  /\ req \in ScanRequests \cup DiscoveryRequests
  /\ window = << >>
  /\ Start(Blank)

NextRequest ==
  \/ NextScan
  \/ \E k \in Slots \ {1} :
       \/ AccountInfoReturns(k)
       \/ AccountInfoTimesOut(k)
       \/ SignaturesReturn(k)
       \/ TransactionReturns(k)
       \/ TransactionTimesOut(k)
  \/ DiscSignaturesReturn
  \/ DiscSignaturesTimeOut
  \/ DiscItemReturns
  \/ DiscTimerFires
  \/ DiscDelayEnds
  \/ DiscoveryTimerFires
  \/ BatchTimerFires
  \/ ProcessBatchDelayEnds
  \/ GatewayRecovers

SpecRequest == InitRequest /\ [][NextRequest]_vars

(***************************************************************************)
(* Properties                                                              *)
(***************************************************************************)
Returned(k) == an[k].pc = "done" /\ an[k].res # NoResult

\* C1: checkInsiderCriteria returns isInsider = true if and only if the six
\* sub-conditions hold together: a funding source was recorded, it was a
\* fresh-wallet first funding, the funding amount lies in [0.5, 2.5] SOL,
\* quickTrades >= 3, goodPlays >= 1 and totalTrades >= 10.
C1_InsiderIffAllSix ==
  \A k \in Slots :
    Returned(k) =>
      (an[k].res.isInsider <=>
         /\ an[k].fundingSource # Null
         /\ an[k].isFirstFunding
         /\ an[k].fundingAmount >= 500000 /\ an[k].fundingAmount <= 2500000
         /\ an[k].quickTrades >= 3
         /\ an[k].goodPlays >= 1
         /\ an[k].totalTrades >= 10)

\* a classification returned an insider verdict
C1_Witness == \E k \in Slots : Returned(k) /\ an[k].res.isInsider

\* a result names a funding source and an amount within the band; the amount
\* is the toFixed(4) string of the classifier or the number of the candidate
HasProvenance(w) ==
  /\ w.fundingSource # Null
  /\ IF w.amountIsString
     THEN w.fundingAmount >= ToFixed4(MinFunding) /\ w.fundingAmount <= ToFixed4(MaxFunding)
     ELSE w.fundingAmount >= MinFunding /\ w.fundingAmount <= MaxFunding

AllOf(list, P(_)) == \A j \in 1..Len(list) : P(list[j])

\* C2: every classification result of every scan mode (specific, batch,
\* recent, auto-discovery) that says isInsider = true has a non-null
\* fundingSource and a fundingAmount within [0.5, 2.5] SOL, whatever the
\* gateway answers and whichever timers fire.
C2_InsiderHasProvenance ==
  LET Ok(w) == w.isInsider => HasProvenance(w)
  IN /\ \A k \in Slots : an[k].res # NoResult => Ok(an[k].res)
     /\ \A k \in Slots : batch.val[k] # NoResult => Ok(batch.val[k])
     /\ AllOf(scan.res, Ok)
     /\ AllOf(batch.all, Ok)
     /\ resp.kind \in {"scan", "auto"} => AllOf(resp.data, Ok)

\* an auto-discovery response that reports an insider
C2_Witness ==
  /\ resp.kind = "auto"
  /\ \E j \in 1..Len(resp.data) : resp.data[j].isInsider

\* C3: when the overall deadline expires while a batch or recent scan has
\* already classified some addresses, the response holds those completed
\* results and is not a failure.
C3_PartialResultsOnDeadline ==
  [][(/\ scan.mode \in {"batch", "recent"}
      /\ overall.due = 0 /\ ~overall.settled /\ overall'.fired
      /\ Len(scan.res) > 0)
     => (resp'.success /\ resp'.hasData /\ resp'.data = scan.res)]_vars

\* the overall deadline of the request
Deadline(r) == IF r.autoDiscoveryMode THEN AutoDiscoveryTimeout ELSE OverallTimeout

\* C4: a request that reaches the scan stage is answered no later than its
\* overall deadline (8 s, auto-discovery 45 s), whatever the gateway does:
\* as long as no response is sent the deadline timer is armed and not yet
\* past, and once it has fired the response is sent.
C4_RespondsByDeadline ==
  /\ (overall.started /\ resp = NoResp) =>
       (overall.due >= 0 /\ overall.due <= Deadline(req))
  /\ overall.fired => resp # NoResp

\* the deadline was reached with the gateway silent, and it sent the response
C4_Witness == overall.fired /\ gwDown /\ resp.kind = "failed"

\* the response says that the scan was cut short
TimedOutIndication(r) == "timedOut" \in DOMAIN r /\ r.timedOut

\* C5: whenever a sub-operation of the scan was cut off by its deadline
\* before the response, the response carries timedOut = true.
C5_TimedOutFlagged ==
  [][(resp = NoResp /\ resp' # NoResp /\ cut' # {}) => TimedOutIndication(resp')]_vars

\* the addresses of a batch request for which every gateway call failed
BatchAddrs == {req.batchWallets[j] : j \in 1..Len(req.batchWallets)}
FailingAddrs == {a \in BatchAddrs : a \in gwLog.called /\ a \notin gwLog.ok}
OneFailedOthersClassified ==
  /\ scan.mode = "batch"
  /\ Cardinality(FailingAddrs) = 1
  /\ \A a \in BatchAddrs \ FailingAddrs : HasAddress(scan.res, a)
OthersInResponse ==
  /\ resp.kind = "scan"
  /\ \A a \in BatchAddrs \ FailingAddrs : HasAddress(resp.data, a)
  /\ \A a \in FailingAddrs : ~HasAddress(resp.data, a)

\* C6: in a direct batch scan in which every gateway call of exactly one
\* address fails and the other addresses were classified, the response holds
\* the classifications of the other addresses and omits the failed one.
C6_BatchIsolation ==
  [][(resp = NoResp /\ resp' # NoResp /\ OneFailedOthersClassified')
     => OthersInResponse']_vars

\* C7: the candidates discoverFreshWallets returns have pairwise different
\* addresses.
C7_DiscoveryDedup ==
  disc.returned =>
    \A i, j \in 1..Len(disc.snapshot) :
      i # j => disc.snapshot[i].address # disc.snapshot[j].address

\* C8: discoverFreshWallets returns at most maxWallets candidates.
C8_AtMostMaxWallets == disc.returned => Len(disc.snapshot) <= disc.maxWallets

\* C9: when the 30 s discovery timer fires, discoverFreshWallets returns the
\* candidates found up to that moment, the request does not fail, and the
\* candidates are handed to processWalletBatch.
C9_DeadlineYieldsCandidates ==
  [][("discovery" \notin cut /\ "discovery" \in cut')
     => (/\ disc'.returned
         /\ disc'.snapshot = disc.found
         /\ (resp' = resp \/ resp'.kind = "auto")
         /\ IF disc.found = <<>> THEN batch'.pc = "idle"
            ELSE batch'.pc = "run" /\ batch'.wallets = disc.found)]_vars

\* the discovery timer fired with candidates found, and they are classified
C9_Witness ==
  /\ "discovery" \in cut
  /\ Len(disc.snapshot) > 0
  /\ batch.pc = "run"
  /\ batch.wallets = disc.snapshot

\* a request that names a scan type without what the type needs
Malformed(r) ==
  /\ r.body = "ok" /\ r.special = "none" /\ ~r.autoDiscoveryMode
  /\ \/ r.scanType = "specific" /\ r.walletAddress = Null
     \/ r.scanType = "batch" /\ Len(r.batchWallets) = 0

\* C10: a malformed or incomplete request (no body, invalid JSON, 'specific'
\* without walletAddress, 'batch' without wallets) is answered with a
\* rejection and no gateway call is made for it.
C10_RejectedBeforeGateway ==
  (overall.started /\ (req.body # "ok" \/ Malformed(req)))
    => (gwCalls = 0 /\ resp.kind = "rejected")

\* C11: every call into the ledger gateway (getAccountInfo,
\* getSignaturesForAddress, getTransaction) of every scan mode is raced
\* against a timer of its own: while a call is in flight, the timer of its
\* race is armed.
C11_EveryCallHasDeadline ==
  /\ \A k \in Slots : InFlight(an[k]) => an[k].due # NoTimer
  /\ ScanInFlight(scan) => scan.due # NoTimer
  /\ disc.pc = "sigs" => disc.stepDue # NoTimer
  /\ (disc.pc = "chunk" /\ \E j \in 1..Len(disc.items) : disc.items[j] # "done")
       => disc.stepDue # NoTimer

\* the step ends the fetch of transaction i of the analysis in slot k without
\* a record: the call failed, answered null, or lost the race to its timer
FetchLost(k) ==
  /\ an[k].pc = "tx"
  /\ an'[k].pc # "tx" \/ an'[k].i # an[k].i
  /\ gwLog'.records[k] = gwLog.records[k]

\* lines 388-400: the analysis in slot k returned its result to
\* scanRecentTransactions, which pushed it and called the analysis of the
\* next funded wallet at once
HandedOn(k) ==
  /\ an[k].ctx = "recent" /\ an'[k].pc = "acct"
  /\ Len(scan'.res) = Len(scan.res) + 1
  /\ LET walletData == scan'.res[Len(scan'.res)]
     IN /\ walletData.address = an[k].addr
        /\ walletData.quickTrades = an[k].quickTrades
        /\ walletData.goodPlays = an[k].goodPlays
        /\ walletData.fundingSource = an[k].fundingSource

\* the locals of checkInsiderCriteria that a transaction record contributes to
Tally(t) ==
  <<t.fundingSource, t.fundingAmount, t.isFirstFunding, t.quickTrades, t.goodPlays,
    t.totalTrades, t.totalProfit, t.washTradeVolume>>

\* C12: a getTransaction call of a classification that fails (timeout, error
\* or null) is skipped: the tallies stay as they are, the loop goes on with
\* the next transaction of the window or, after the last one, returns a
\* classification result, and the step sends no failure response.
C12_FailedFetchSkipped ==
  [][\A k \in Slots :
       FetchLost(k) =>
         /\ \/ /\ an'[k].i = an[k].i + 1
               /\ Tally(an'[k]) = Tally(an[k])
               /\ IF an'[k].i < Min(an[k].nsigs, MaxTransactions)
                  THEN an'[k].pc = "tx" /\ an'[k].due = TransactionTimeout
                  ELSE an'[k].pc = "done" /\ an'[k].res # NoResult
                       /\ an'[k].res.address = an[k].addr
            \/ /\ an[k].i + 1 >= Min(an[k].nsigs, MaxTransactions)
               /\ HandedOn(k)
         /\ resp' # resp => resp'.success]_vars

\* a classification was returned although a fetch of its window timed out
\* and others were counted
C12_Witness ==
  /\ "transaction" \in cut
  /\ \E k \in Slots :
       /\ Returned(k)
       /\ an[k].totalTrades > 0
       /\ an[k].totalTrades < Min(an[k].nsigs, MaxTransactions)

\* the step issues a gateway call for the analysis in slot k
AnCalls(k) ==
  \/ an'[k].pc = "acct" /\ an[k].pc # "acct"
  \/ an'[k].pc = "sigs" /\ an[k].pc # "sigs"
  \/ an'[k].pc = "tx" /\ (an[k].pc # "tx" \/ an'[k].i # an[k].i)

\* the step issues a gateway call for discovery
DiscCalls ==
  \/ disc'.pc = "sigs" /\ (disc.pc # "sigs" \/ disc'.seed # disc.seed)
  \/ disc'.pc = "chunk"
       /\ (disc.pc # "chunk" \/ disc'.i # disc.i \/ disc'.seed # disc.seed)

\* C13: once a parent deadline has fired, no gateway call is issued on behalf
\* of that parent any more and the response is left alone: no call at all
\* after the overall deadline, none of discovery after the 30 s discovery
\* deadline, none of a wallet's analysis after its 10 s deadline.
C13_DeadlineCancelsChildren ==
  [][/\ overall.fired => (gwCalls' = gwCalls /\ resp' = resp)
     /\ (disc.returned /\ "discovery" \in cut) => ~DiscCalls
     /\ \A k \in Slots :
          (batch.pc # "idle" /\ k \in batch.settled /\ InFlight(an[k])) => ~AnCalls(k)]_vars

\* the gateway calls in flight whose answer the program still waits for; a
\* call that lost the race to its timer is not counted although the gateway
\* may still be working on it
InFlightCalls ==
  Cardinality({k \in Slots : InFlight(an[k])})
  + (IF ScanInFlight(scan) THEN 1 ELSE 0)
  + (IF disc.pc = "sigs" THEN 1 ELSE 0)
  + Cardinality({j \in 1..Len(disc.items) : disc.items[j] # "done"})

\* the limit of the phase the request is in: one call in the direct modes,
\* a chunk of transactions during discovery, a batch of wallets afterwards
ConcurrencyLimit ==
  IF ~req.autoDiscoveryMode THEN 1
  ELSE IF disc.returned THEN batchSize
  ELSE chunkSize

\* C14: the number of gateway calls of a request in flight at the same time
\* never exceeds the limit of its phase (10 during discovery, 5 during batch
\* classification, 1 in a direct scan), also after a deadline has fired.
C14_ConcurrencyLimit == InFlightCalls <= ConcurrencyLimit

\* C16: every wallet of an auto-discovery response has isInsider = true,
\* while a direct batch scan appends every analysis that returned a record,
\* whatever its verdict, and responds with the list of them.
C16_OutputFiltering ==
  [][/\ resp'.kind = "auto" =>
          \A j \in 1..Len(resp'.data) : resp'.data[j].isInsider
     /\ (resp'.kind = "scan" /\ scan'.mode = "batch") => resp'.data = scan'.res
     /\ (scan.mode = "batch" /\ an[1].pc # "done" /\ an'[1].pc = "done"
           /\ an'[1].res # NoResult)
          => scan'.res = Append(scan.res, an'[1].res)]_vars

\* an auto-discovery response that reports an insider and leaves out a
\* wallet that was analysed and found not to be one
C16_Witness ==
  /\ resp.kind = "auto"
  /\ Len(resp.data) >= 1
  /\ \E j \in 1..Len(batch.all) : ~batch.all[j].isInsider

\* the depth the caller asked for: scanDepth, 50 when the request has none
RequestedDepth(r) == IF r.hasDepth THEN r.scanDepth ELSE DefaultScanDepth

\* C17: every result of a response satisfies analysisDepth <= requested
\* depth <= hard cap (50): the depth of the analysis exceeds neither the
\* depth the caller asked for nor the cap, for every scanDepth and scan mode.
C17_DepthCeiling ==
  resp.kind \in {"scan", "auto"} =>
    \A j \in 1..Len(resp.data) :
      /\ resp.data[j].analysisDepth <= RequestedDepth(req)
      /\ resp.data[j].analysisDepth <= MaxScanDepth

\* a response object with a success flag and a text that explains it
Structured(r) == r.success \in BOOLEAN /\ (r.message # Null \/ r.error # Null)

\* the handler has run to the point where it answers: the request was
\* rejected or answered from a test switch, or the race of the scan is over
Answerable ==
  /\ overall.started
  /\ \/ req.body # "ok" \/ req.special # "none"
     \/ overall.settled \/ overall.fired

\* C18: every request, the failures included (no body, invalid JSON, overall
\* deadline), gets exactly one response, an object with a success flag and
\* explanatory text; a timer or a scan that ends after the response was sent
\* sends no second response and leaves the sent one as it is.
C18_ExactlyOneResponse ==
  [][/\ respCount' <= 1
     /\ respCount' = 1 <=> resp' # NoResp
     /\ resp' # NoResp => Structured(resp')
     /\ resp # NoResp => resp' = resp
     /\ Answerable' => resp' # NoResp]_vars

\* the deadline answered with the failure response, the scan ran on to its
\* end afterwards, and there is still one response
C18_Witness ==
  /\ overall.fired /\ resp.kind = "failed"
  /\ scan.pc = "done"
  /\ respCount = 1

\* C19: totalTrades of an analysis equals the number of records of its
\* window that were fetched with preBalances[0] and postBalances[0] present,
\* in whatever order the records with and without balances appear.
C19_TotalTradesCountsRecords ==
  \A k \in Slots :
    an[k].pc \in {"tx", "done"} => an[k].totalTrades = gwLog.records[k]

\* a returned classification of a full window of which some fetches, but
\* not all, brought a record with balances
C19_Witness ==
  \E k \in Slots :
    /\ Returned(k)
    /\ an[k].nsigs = 10
    /\ an[k].totalTrades >= 2
    /\ an[k].totalTrades < 10

\* C20: in every state of the loop of checkInsiderCriteria and in every
\* returned result, quickTrades, goodPlays and totalTrades are non-negative
\* integers with quickTrades <= totalTrades and goodPlays <= totalTrades,
\* whichever fetches succeed, fail or time out.
C20_TalliesBounded ==
  \A k \in Slots :
    /\ an[k].quickTrades \in Nat /\ an[k].goodPlays \in Nat
    /\ an[k].totalTrades \in Nat
    /\ an[k].quickTrades <= an[k].totalTrades
    /\ an[k].goodPlays <= an[k].totalTrades
    /\ an[k].res # NoResult =>
         /\ an[k].res.quickTrades \in Nat /\ an[k].res.goodPlays \in Nat
         /\ an[k].res.quickTrades <= an[k].totalTrades
         /\ an[k].res.goodPlays <= an[k].totalTrades

\* a returned classification, after a fetch of its window was lost, in
\* which the quick trades and the good plays make up all counted trades
C20_Witness ==
  \E k \in Slots :
    /\ Returned(k)
    /\ an[k].totalTrades < Min(an[k].nsigs, MaxTransactions)
    /\ an[k].goodPlays >= 1
    /\ an[k].quickTrades >= 2
    /\ an[k].quickTrades + an[k].goodPlays = an[k].totalTrades

\* the seed addresses among the account keys of a record
SeedKeys(tx) == {tx.keys[j] : j \in 1..Len(tx.keys)} \cap {Binance2, Changenow}

\* lines 629-640: the change of the balance at index 0 of a record
Change0(tx) == tx.post[1] - tx.pre[1]

\* lines 623-652: the entry is a funding event as the loop tests it: a seed
\* among the keys, a rise of 0.5 to 2.5 SOL from at most 1000 lamports
Qualifies(e) ==
  /\ HasBalances(e.tx) /\ e.tx.hasKeys
  /\ SeedKeys(e.tx) # {}
  /\ Change0(e.tx) >= 500000 /\ Change0(e.tx) <= 2500000
  /\ e.tx.pre[1] <= 1

QualifyingEntries == {j \in 1..Len(window) : Qualifies(window[j])}

\* entry j of the window is not later than entry m: by block time where both
\* have one, by the order of retrieval (newest first) otherwise
NotLater(j, m) ==
  IF window[j].bt # 0 /\ window[m].bt # 0
  THEN window[j].bt <= window[m].bt
  ELSE m <= j

\* C21: of several qualifying funding events in the window, the returned
\* fundingSource and fundingAmount are those of the earliest one by block
\* time; the later ones leave no trace in the result, and without a
\* qualifying event no funding source is reported.
C21_EarliestFundingRetained ==
  (scope = "window" /\ Returned(1)) =>
    IF QualifyingEntries = {}
    THEN an[1].res.fundingSource = Null
    ELSE \E j \in QualifyingEntries :
           /\ \A m \in QualifyingEntries : NotLater(j, m)
           /\ an[1].res.fundingSource \in SeedKeys(window[j].tx)
           /\ an[1].res.fundingAmount = ToFixed4(Change0(window[j].tx))

\* a returned classification of a window with two qualifying fundings of
\* different seeds, amounts and block times
C21_Witness ==
  /\ scope = "window" /\ Returned(1)
  /\ \E a \in QualifyingEntries : \E b \in QualifyingEntries :
       /\ a < b
       /\ window[b].bt # 0 /\ window[a].bt > window[b].bt
       /\ SeedKeys(window[a].tx) # SeedKeys(window[b].tx)
       /\ Change0(window[a].tx) # Change0(window[b].tx)

\* the subject addr is an account of the record, and the balance at its own
\* index rose by 0.5 to 2.5 SOL from at most 1000 lamports
SubjectFunded(tx, addr) ==
  /\ HasBalances(tx) /\ tx.hasKeys
  /\ SeedKeys(tx) # {}
  /\ \E p \in 1..Len(tx.keys) :
       /\ tx.keys[p] = addr
       /\ p <= Len(tx.pre) /\ p <= Len(tx.post)
       /\ tx.post[p] - tx.pre[p] >= 500000 /\ tx.post[p] - tx.pre[p] <= 2500000
       /\ tx.pre[p] <= 1
       /\ an[1].fundingAmount = tx.post[p] - tx.pre[p]

\* C22: a funding source is recorded for the subject only from a record that
\* touches a seed and in which the balance at the subject's own index rose in
\* band from a near-zero balance; the recorded amount is that rise.
C22_FundingReadAtSubject ==
  (scope = "window" /\ an[1].fundingSource # Null) =>
    \E j \in 1..Len(window) :
      j <= an[1].i /\ SubjectFunded(window[j].tx, an[1].addr)

\* an amount of 0.5 to 2.5 SOL, both ends included
InFundingBand(a) == a >= 500000 /\ a <= 2500000

\* C23: every candidate discovery has collected or returned has a
\* fundingAmount within [0.5, 2.5] SOL, and so has the amount of every wallet
\* findFundedWallets returned to scanRecentTransactions.
C23_AmountsInBand ==
  /\ \A j \in 1..Len(disc.found) : InFundingBand(disc.found[j].fundingAmount)
  /\ \A j \in 1..Len(disc.snapshot) : InFundingBand(disc.snapshot[j].fundingAmount)
  /\ \A j \in 1..Len(scan.funded) : InFundingBand(scan.funded[j].amount)

\* discovery has returned candidates with the smallest and the largest
\* amount of the band, after it met a transfer of 3 SOL
C23_Witness ==
  /\ disc.returned
  /\ disc.seed = 2 /\ disc.i + Len(disc.items) >= 2
  /\ \E a \in 1..Len(disc.snapshot) : disc.snapshot[a].fundingAmount = 500000
  /\ \E b \in 1..Len(disc.snapshot) : disc.snapshot[b].fundingAmount = 2500000

\* the transaction of the seed ledger a candidate was discovered from
SourceTx(c) == SeedLedger(c.discoveredFrom[1])[c.discoveredFrom[2]]

\* the rise of the balance of address a in the transaction tx
BalanceIncrease(tx, a) ==
  LET p == CHOOSE q \in 1..Len(tx.keys) : tx.keys[q] = a
  IN tx.post[p] - tx.pre[p]

\* C24: the address of a discovery candidate is the destination account of
\* a System Program transfer instruction of the transaction it was
\* discovered from, and its fundingAmount is the balance increase of that
\* same account in that transaction.
C24_AmountOfDestination ==
  \A j \in 1..Len(disc.found) :
    LET c == disc.found[j]
        tx == SourceTx(c)
    IN /\ \E n \in 1..Len(tx.instrs) :
            /\ tx.instrs[n].programId = SystemProgram
            /\ tx.instrs[n].accounts[2] = c.address
       /\ c.fundingAmount = BalanceIncrease(tx, c.address)

\* the step takes the fetched record of signatures[i], i = an[1].i, of the
\* window through the loop body, and the record is counted
CountsEntry ==
  /\ scope = "window" /\ an[1].pc = "tx" /\ an'[1] # an[1]
  /\ HasBalances(window[an[1].i + 1].tx)

\* the entries signatures[i] and signatures[i-1] of that step
CurEntry == window[an[1].i + 1]
PrevEntry == window[an[1].i]

C27_NoBlockTimeStillCounted ==
  [][(CountsEntry /\ (CurEntry.bt = 0 \/ (an[1].i > 0 /\ PrevEntry.bt = 0))) =>
       /\ an'[1].quickTrades = an[1].quickTrades
       /\ an'[1].washTradeVolume = an[1].washTradeVolume
       /\ an'[1].goodPlays = an[1].goodPlays
       /\ an'[1].totalTrades = an[1].totalTrades + 1
       /\ an'[1].totalProfit =
            an[1].totalProfit
              + (IF Change0(CurEntry.tx) > 0 THEN Change0(CurEntry.tx) ELSE 0)]_vars

\* a window of two gains, the second without blockTime: both are counted
\* with their profit, none as a quick trade or a good play
C27_Witness ==
  /\ scope = "window" /\ Returned(1)
  /\ Len(window) = 2
  /\ window[1].bt # 0 /\ window[2].bt = 0
  /\ HasBalances(window[1].tx) /\ HasBalances(window[2].tx)
  /\ Change0(window[1].tx) = 100001 /\ Change0(window[2].tx) = 100001
  /\ an[1].totalTrades = 2
  /\ an[1].totalProfit = 200002
  /\ an[1].quickTrades = 0 /\ an[1].goodPlays = 0

\* the number of true conditions among those of the sequence conds
RECURSIVE CountTrue(_)
CountTrue(conds) ==
  IF conds = <<>> THEN 0
  ELSE (IF Head(conds) THEN 1 ELSE 0) + CountTrue(Tail(conds))

\* the list `missing` has an entry with this tag; its number n
Mentions(missing, tag) == \E j \in 1..Len(missing) : missing[j].tag = tag
Shortfall(missing, tag, n) ==
  \A j \in 1..Len(missing) : missing[j].tag = tag => missing[j].n = n

\* C28: on a verdict of false the reason has an entry for a sub-condition
\* exactly when that sub-condition failed, has no other entry and is not
\* empty; the entry of a count below its threshold states threshold minus
\* observed count as the number still needed.
C28_ReasonListsFailures ==
  \A k \in Slots :
    (Returned(k) /\ ~an[k].res.isInsider) =>
      LET t == an[k]
          missing == t.res.insiderReason.missing
      IN /\ Len(missing) >= 1
         /\ Len(missing) =
              CountTrue(<<t.fundingSource = Null, ~t.isFirstFunding,
                          t.fundingAmount < 500000 \/ t.fundingAmount > 2500000,
                          t.quickTrades < 3, t.goodPlays < 1, t.totalTrades < 10>>)
         /\ Mentions(missing, "Not funded by insider wallet") <=> t.fundingSource = Null
         /\ Mentions(missing, "Not a fresh wallet") <=> ~t.isFirstFunding
         /\ Mentions(missing, "Funding amount outside 0.5-2.5 range")
              <=> (t.fundingAmount < 500000 \/ t.fundingAmount > 2500000)
         /\ Mentions(missing, "Need more wash trades") <=> t.quickTrades < 3
         /\ Shortfall(missing, "Need more wash trades", 3 - t.quickTrades)
         /\ Mentions(missing, "Need more good plays") <=> t.goodPlays < 1
         /\ Shortfall(missing, "Need more good plays", 1 - t.goodPlays)
         /\ Mentions(missing, "Need more total trades") <=> t.totalTrades < 10
         /\ Shortfall(missing, "Need more total trades", 10 - t.totalTrades)

\* a classification returned false for a funded wallet with exactly three
\* quick trades: its reason names the good plays and the total trades only
C28_Witness ==
  \E k \in Slots :
    /\ Returned(k) /\ ~an[k].res.isInsider
    /\ an[k].fundingSource # Null
    /\ an[k].quickTrades = 3 /\ an[k].goodPlays = 0 /\ an[k].totalTrades = 4
    /\ Len(an[k].res.insiderReason.missing) = 2

\* the list of detected patterns holds this tag
HasPattern(patterns, tag) == \E j \in 1..Len(patterns) : patterns[j] = tag

\* C29: detectedPatterns holds each tag exactly when the sub-condition of
\* that tag holds, and nothing else, whatever the verdict is.
C29_PatternsFollowConditions ==
  \A k \in Slots :
    Returned(k) =>
      LET t == an[k]
          patterns == t.res.detectedPatterns
          inBand == t.fundingAmount >= 500000 /\ t.fundingAmount <= 2500000
      IN /\ Len(patterns) =
              CountTrue(<<t.fundingSource # Null /\ t.isFirstFunding, inBand,
                          t.quickTrades >= 3, t.goodPlays >= 1, t.totalTrades >= 10>>)
         /\ HasPattern(patterns, "FRESH wallet FIRST funded by Binance 2")
              <=> (t.fundingSource = Binance2 /\ t.isFirstFunding)
         /\ HasPattern(patterns, "FRESH wallet FIRST funded by Changenow")
              <=> (t.fundingSource = Changenow /\ t.isFirstFunding)
         /\ HasPattern(patterns, "Optimal Funding Range") <=> inBand
         /\ HasPattern(patterns, "High Wash Trading") <=> t.quickTrades >= 3
         /\ HasPattern(patterns, "Hidden Good Plays") <=> t.goodPlays >= 1
         /\ HasPattern(patterns, "High Transaction Volume") <=> t.totalTrades >= 10

\* a classification returned false and yet carries the tags of wash trading
\* and of a good play
C29_Witness ==
  \E k \in Slots :
    /\ Returned(k) /\ ~an[k].res.isInsider
    /\ HasPattern(an[k].res.detectedPatterns, "High Wash Trading")
    /\ HasPattern(an[k].res.detectedPatterns, "Hidden Good Plays")

\* C31: when no transaction fetch of an address brings a record (each
\* answers null, fails, or brings a record without balances), the
\* classification still returns a result: totalTrades = 0, isInsider = false
\* and a reason that names the ten total trades still needed.
C31_NothingFetchedStillClassified ==
  \A k \in Slots :
    (an[k].pc = "done" /\ an[k].nsigs > 0 /\ gwLog.records[k] = 0) =>
      /\ an[k].res # NoResult
      /\ an[k].totalTrades = 0
      /\ ~an[k].res.isInsider
      /\ \E j \in 1..Len(an[k].res.insiderReason.missing) :
           /\ an[k].res.insiderReason.missing[j].tag = "Need more total trades"
           /\ an[k].res.insiderReason.missing[j].n = 10

\* a classification of a window of ten signatures returned after every
\* fetch was answered in time and none brought a record
C31_Witness ==
  /\ "transaction" \notin cut
  /\ an[1].pc = "done" /\ an[1].res # NoResult
  /\ an[1].nsigs = 10 /\ an[1].i = 10
  /\ "W" \in gwLog.ok
  /\ gwLog.records[1] = 0

\* C32: W1 was funded with 1 SOL by Binance 2 at a balance of 0, traded at
\* gaps of 40 s, and has a gain of 0.2 SOL ten minutes from its neighbour.
\* When all ten transactions of its window are fetched, the classification
\* is isInsider = true with fundingSource Binance 2 and fundingAmount
\* "1.0000" (10000 units of 0.0001 SOL).
C32_PositiveScenario ==
  \A k \in Slots :
    (Returned(k) /\ an[k].addr = "W1" /\ an[k].totalTrades >= 10) =>
      /\ an[k].quickTrades >= 3 /\ an[k].goodPlays >= 1
      /\ an[k].res.isInsider
      /\ an[k].res.fundingSource = Binance2
      /\ an[k].res.fundingAmount = 10000
      /\ an[k].res.insiderReason.insider
      /\ an[k].res.insiderReason.amount = 10000

\* the classification of W1 was returned with eight quick trades and the
\* one good play
C32_Witness ==
  \E k \in Slots :
    /\ Returned(k) /\ an[k].addr = "W1"
    /\ an[k].totalTrades = 10 /\ an[k].quickTrades = 8 /\ an[k].goodPlays = 1
    /\ an[k].res.isInsider

\* one of the three newest transactions of Binance 2 lowered the balance of
\* Binance 2 and raised the balance of the other account a by 0.5 to 2.5 SOL
FundedBySeed(a) ==
  \E i \in 1..3 :
    LET tx == SeedLedger(Binance2)[i]
    IN \E q \in 1..Len(tx.keys) : \E p \in 1..Len(tx.keys) :
         /\ tx.keys[q] = Binance2 /\ tx.post[q] < tx.pre[q]
         /\ tx.keys[p] = a /\ a # Binance2
         /\ tx.post[p] - tx.pre[p] >= 500000 /\ tx.post[p] - tx.pre[p] <= 2500000

\* a list of results names no address twice, has at most 5 entries, and
\* names only recipients the seed funded
RecentList(list) ==
  /\ Len(list) <= 5
  /\ \A i \in 1..Len(list) : \A j \in 1..Len(list) :
       i # j => list[i].address # list[j].address
  /\ \A j \in 1..Len(list) : FundedBySeed(list[j].address)

\* C33: the recent mode works from the one seed Binance 2: every address it
\* calls the gateway for is the seed or a recipient the seed funded in band
\* in one of its newest transactions, and its list of results, as built and
\* as sent, names each recipient at most once and has at most 5 entries.
C33_RecentRecipients ==
  scan.mode = "recent" =>
    /\ RecentList(scan.res)
    /\ resp.kind = "scan" => RecentList(resp.data)
    /\ \A a \in gwLog.called : a = Binance2 \/ FundedBySeed(a)

\* the recent scan answered with five results after it skipped W3, funded a
\* second time, and left out W6, the sixth recipient
C33_Witness ==
  /\ scan.mode = "recent" /\ resp.kind = "scan"
  /\ Len(resp.data) = 5
  /\ \E j \in 1..5 : resp.data[j].address = "W3"
  /\ \E j \in 1..5 : resp.data[j].address = "W5"
  /\ FundedBySeed("W6") /\ "W6" \notin gwLog.called

\* C34: in every state of checkInsiderCriteria a funding source is recorded
\* exactly when isFirstFunding is true; then fundingAmount lies within
\* [0.5, 2.5] SOL, otherwise it is 0.  A result without a recorded source
\* (also of a wallet a seed funded while not fresh, or out of band) lists
\* all three provenance failures.
C34_ProvenanceMovesTogether ==
  scope = "window" =>
    /\ an[1].fundingSource # Null <=> an[1].isFirstFunding
    /\ an[1].fundingSource # Null =>
         (an[1].fundingAmount >= 500000 /\ an[1].fundingAmount <= 2500000)
    /\ an[1].fundingSource = Null => an[1].fundingAmount = 0
    /\ (Returned(1) /\ an[1].fundingSource = Null) =>
         LET missing == an[1].res.insiderReason.missing
         IN /\ Mentions(missing, "Not funded by insider wallet")
            /\ Mentions(missing, "Not a fresh wallet")
            /\ Mentions(missing, "Funding amount outside 0.5-2.5 range")
            /\ Shortfall(missing, "Funding amount outside 0.5-2.5 range", 0)

\* the classification of a window whose two records are a seed funding of
\* 1 SOL into a wallet that held 1 SOL and a seed funding of 3 SOL was
\* returned without a funding source
C34_Witness ==
  /\ scope = "window" /\ Returned(1)
  /\ Len(window) = 2
  /\ window[1].tx = Fund(Binance2, Sol, Sol)
  /\ window[2].tx = Fund(Changenow, 0, 3 * Sol)
  /\ an[1].totalTrades = 2
  /\ an[1].fundingSource = Null

\* C35: a verdict of isInsider = true is returned only for an address with
\* ten signatures of which every one of the ten fetches brought, in time, a
\* record with balances; one fetch that timed out, failed or brought nothing
\* makes the verdict false.
C35_InsiderNeedsFullWindow ==
  \A k \in Slots :
    (Returned(k) /\ an[k].res.isInsider) =>
      /\ an[k].nsigs >= 10
      /\ an[k].i = 10
      /\ gwLog.records[k] = 10
      /\ "transaction" \notin cut

\* a classification of a window of ten signatures that has a funding
\* source, three quick trades and a good play among its nine counted
\* records, and is returned as not an insider since one fetch was lost
C35_Witness ==
  \E k \in Slots :
    /\ Returned(k) /\ ~an[k].res.isInsider
    /\ an[k].nsigs = 10 /\ gwLog.records[k] = 9
    /\ an[k].fundingSource # Null
    /\ an[k].quickTrades >= 3 /\ an[k].goodPlays >= 1

\* C36: no step of the loop counts its transaction both as a quick trade
\* and as a good play, the entry at index 0 is counted as neither, and a
\* transaction counted as one of them is counted in totalTrades; so
\* quickTrades + goodPlays <= totalTrades after every step.
C36_QuickOrGoodNotBoth ==
  [][\A k \in Slots :
       (an[k].pc = "tx" /\ an'[k] # an[k] /\ an'[k].addr = an[k].addr) =>
         LET quick == an'[k].quickTrades - an[k].quickTrades
             good == an'[k].goodPlays - an[k].goodPlays
             total == an'[k].totalTrades - an[k].totalTrades
         IN /\ quick \in {0, 1} /\ good \in {0, 1} /\ total \in {0, 1}
            /\ quick + good <= total
            /\ an[k].i = 0 => (quick = 0 /\ good = 0)
            /\ an'[k].quickTrades + an'[k].goodPlays <= an'[k].totalTrades
            /\ an'[k].res # NoResult =>
                 an'[k].res.quickTrades + an'[k].res.goodPlays <= an'[k].totalTrades]_vars

\* a classification of three records, all counted: the first as neither, one
\* as a quick trade and one as a good play
C36_Witness ==
  \E k \in Slots :
    /\ Returned(k)
    /\ an[k].nsigs = 3 /\ an[k].totalTrades = 3
    /\ an[k].quickTrades = 1 /\ an[k].goodPlays = 1

\* C37: when the record of signatures[i], i > 0, is counted, the distance it
\* is judged by is the one between blockTime i and blockTime i-1 of the
\* signature list, whether or not the fetch of transaction i-1 brought a
\* record: quickTrades and goodPlays move as that distance says.
C37_DeltaFromSignatureList ==
  [][\A k \in Slots :
       (/\ an[k].pc = "tx" /\ an[k].i > 0
        /\ an[k].addr \in {"W1", "W2"} /\ an'[k].addr = an[k].addr
        /\ an'[k].totalTrades = an[k].totalTrades + 1) =>
         LET h == Ledger(an[k].addr)
             timeDiff == Abs(h[an[k].i].bt - h[an[k].i + 1].bt)
             solChange == h[an[k].i + 1].tx.post[1] - h[an[k].i + 1].tx.pre[1]
         IN /\ an'[k].quickTrades =
                 an[k].quickTrades + (IF timeDiff <= 60 THEN 1 ELSE 0)
            /\ an'[k].goodPlays =
                 an[k].goodPlays
                   + (IF solChange > 100000 /\ timeDiff > 300 THEN 1 ELSE 0)]_vars

\* the classification of W1 was returned after the fetch of its second
\* transaction timed out: the third was still judged against the second
\* signature, 40 s away, and counted as a quick trade
C37_Witness ==
  \E k \in Slots :
    /\ Returned(k) /\ an[k].addr = "W1"
    /\ "transaction" \in cut
    /\ an[k].totalTrades = 9 /\ an[k].goodPlays = 0 /\ an[k].quickTrades = 8

\* C38: the 15 s timer of a discovery chunk and the 20 s timer of a
\* classification batch never win their race: while a chunk or a batch is
\* running its deadline is still ahead, the timers of its items are due
\* earlier, and no chunk or batch is ever dropped by its deadline.
C38_ChunkDeadlinesNeverWin ==
  /\ disc.pc = "chunk" =>
        /\ disc.chunkDue > 0
        /\ disc.stepDue # NoTimer /\ disc.stepDue < disc.chunkDue
  /\ batch.pc = "run" =>
        /\ batch.due > 0
        /\ batch.stepDue # NoTimer /\ batch.stepDue < batch.due
  /\ "chunk" \notin cut
  /\ "batch" \notin cut

\* the 5 s timers of a chunk are due, with fetches still unanswered, and the
\* deadline of the chunk is 10 s away
C38_Witness ==
  /\ disc.pc = "chunk"
  /\ \E j \in 1..Len(disc.items) : disc.items[j] = "pending"
  /\ disc.stepDue = 0
  /\ disc.chunkDue = ChunkTimeout - TxFetchTimeout

\* C39: every wallet the batch scheduler keeps, and so every wallet of an
\* auto-discovery response, carries the fundingSource and fundingAmount of
\* its discovery candidate; isInsider, the reason and detectedPatterns are
\* those the classifier computed from the provenance it derived itself, and
\* every other field is the classifier's, unchanged.
C39_CandidateProvenanceOverwrites ==
  /\ \A k \in Slots :
        batch.val[k] # NoResult =>
          /\ Returned(k)
          /\ batch.val[k].fundingSource = batch.wallets[k].fundingSource
          /\ batch.val[k].fundingAmount = batch.wallets[k].fundingAmount
          /\ ~batch.val[k].amountIsString
          /\ batch.val[k].isInsider = InsiderAnalysis(an[k]).isInsider
          /\ batch.val[k].insiderReason = InsiderAnalysis(an[k]).reason
          /\ batch.val[k].detectedPatterns = Patterns(an[k])
          /\ batch.val[k] =
               [an[k].res EXCEPT !.fundingSource = batch.wallets[k].fundingSource,
                                 !.fundingAmount = batch.wallets[k].fundingAmount,
                                 !.amountIsString = FALSE]
  /\ resp.kind = "auto" =>
        \A j \in 1..Len(resp.data) :
          \E k \in Slots : batch.val[k] # NoResult /\ resp.data[j] = batch.val[k]

\* an auto-discovery response returns W1 with the amount of its candidate, a
\* number of SOL, while its reason still quotes the four-decimal text the
\* classifier derived, and W2 was analysed in the same run: its entry names
\* the seed of its candidate although the classifier found no seed funding
C39_Witness ==
  /\ resp.kind = "auto"
  /\ \E j \in 1..Len(resp.data) :
        /\ resp.data[j].address = "W1"
        /\ resp.data[j].fundingSource = Binance2
        /\ resp.data[j].fundingAmount = Sol /\ ~resp.data[j].amountIsString
        /\ resp.data[j].insiderReason.amount = ToFixed4(Sol)
  /\ \E k \in Slots :
        /\ batch.val[k] # NoResult /\ batch.val[k].address = "W2"
        /\ an[k].res.fundingSource = Null
        /\ batch.val[k].fundingSource = Binance2
        /\ ~batch.val[k].isInsider

\* C40: once discoverFreshWallets has returned, the list it returned stays as
\* it was while fetches still in flight go on adding candidates to the set:
\* the batches classify the wallets of that list and no other, every wallet
\* of the response is one of them, and totalScanned is the length of the list.
C40_ReturnedListIsSnapshot ==
  [][disc.returned =>
       /\ disc'.returned /\ disc'.snapshot = disc.snapshot
       /\ Len(disc'.found) >= Len(disc.snapshot)
       /\ SubSeq(disc'.found, 1, Len(disc.snapshot)) = disc.snapshot
       /\ batch'.pc # "idle" => batch'.wallets = disc.snapshot
       /\ \A k \in Slots :
            batch'.val[k] # NoResult =>
              /\ k <= Len(disc.snapshot)
              /\ batch'.val[k].address = disc.snapshot[k].address
              /\ batch'.val[k].fundingSource = disc.snapshot[k].fundingSource
       /\ resp'.kind = "auto" =>
            /\ resp'.totalScanned = Len(disc.snapshot)
            /\ \A j \in 1..Len(resp'.data) :
                 \E k \in 1..Len(disc.snapshot) : resp'.data[j] = batch'.val[k]]_vars

\* the 30 s timer ended the discovery, a fetch answered afterwards added a
\* candidate to the set, and the response counts the returned list only
C40_Witness ==
  /\ "discovery" \in cut
  /\ disc.returned
  /\ Len(disc.snapshot) > 0
  /\ Len(disc.found) > Len(disc.snapshot)
  /\ resp.kind = "auto"
  /\ resp.totalScanned = Len(disc.snapshot)

====
